---- MODULE Spec2Model ----
(***************************************************************************)
(* Renovation bot: the project / role / stage / payment / change-log core  *)
(* behind the Telegram handlers, as a state machine over the database      *)
(* tables and the per-user FSM store.                                      *)
(*                                                                         *)
(* Every handler is one action: it runs in one database session and its    *)
(* writes become visible at its commit.  change_payment_status is the one  *)
(* handler modelled in two steps, because it decides on a value it read    *)
(* before an await and writes after it (aiogram runs handlers as           *)
(* concurrent tasks).                                                      *)
(*                                                                         *)
(* A call between modules is modelled by the body of the function it      *)
(* names, with the arguments bound as the caller means them, and           *)
(* get_session() is the transactional scope its docstring describes:       *)
(* commit on normal exit, rollback on an exception.  Where a keyword does  *)
(* not match the callee's signature and a claim depends on the outcome,    *)
(* both outcomes are explored (create_change_log_call).                    *)
(***************************************************************************)
EXTENDS Integers, Sequences, FiniteSets, TLC

\* ------------------------------------------------------------------ bounds

NumTenants == 2
NumTgUsers == 2
MaxProjects == 1
MaxLinkedProjects == 2
MaxUsers == 3
MaxRoleRows == 3
MaxLogs == 3
MaxInFlight == 2
MaxBudgetItems == 2
MaxMessages == 2
MaxMessageId == 2
MaxAiCalls == 2
MaxNow == 6
MaxClock == 120
MaxStatusClock == 4680
MaxDelivered == 1
MaxEmbeddings == 3
MaxTopK == 2
MaxSkillFiles == 3
NumSkillDirs == 2
MaxPriority == 2
MaxTurns == 12
MaxContextClock == 20
MaxNotifyClock == 720

\* Python None / SQL NULL in an integer column or variable (ids start at 1)
None == 0

Tenants == 1..NumTenants
TgUsers == 1..NumTgUsers
\* Telegram chat ids: a private chat has the user's (positive) id, a group a negative id
GroupChats == {-1}

\* ------------------------------------------------------------------ enums

\* db/models.py RoleType
RoleType == {"owner", "co_owner", "foreman", "tradesperson", "designer",
             "supplier", "expert", "viewer"}

\* db/models.py StageStatus
StageStatus == {"planned", "in_progress", "completed", "delayed"}

\* db/models.py PaymentStatus
PaymentStatus == {"recorded", "in_progress", "verified", "paid", "closed"}

\* core/role_service.py ROLE_PERMISSIONS
ROLE_PERMISSIONS ==
  [r \in RoleType |->
    CASE r = "owner" ->
           {"create_project", "edit_project", "launch_project", "close_project",
            "invite_member", "view_stages", "edit_stage", "update_status",
            "add_sub_stages", "approve_checkpoint", "view_budget", "edit_budget",
            "confirm_budget", "view_reports", "request_report", "view_my_stage",
            "request_expert"}
      [] r = "co_owner" ->
           {"view_stages", "view_budget", "view_reports", "request_report",
            "view_my_stage", "request_expert"}
      [] r = "foreman" ->
           {"invite_member", "view_stages", "edit_stage", "update_status",
            "add_sub_stages", "view_budget", "edit_budget", "view_reports",
            "view_my_stage", "send_status", "propose_work"}
      [] r = "tradesperson" ->
           {"view_stages", "view_my_stage", "send_status", "propose_work"}
      [] r = "designer" ->
           {"view_stages", "edit_stage", "add_sub_stages", "view_budget",
            "view_reports", "view_my_stage", "send_status"}
      [] r = "supplier" -> {"view_my_stage", "send_status"}
      [] r = "expert" -> {"view_stages", "view_budget", "conduct_inspection"}
      [] OTHER -> {"view_stages", "view_budget", "view_reports"}]

\* core/role_service.py ASSIGNABLE_ROLES
ASSIGNABLE_ROLES == RoleType \ {"owner"}

\* core/role_service.py has_permission: any of the roles grants the permission
has_permission(roles, permission) ==
  \E r \in roles : permission \in ROLE_PERMISSIONS[r]

\* core/budget_service.py PAYMENT_TRANSITIONS
PAYMENT_TRANSITIONS ==
  [s \in PaymentStatus |->
    CASE s = "recorded" -> {"in_progress"}
      [] s = "in_progress" -> {"verified", "recorded"}
      [] s = "verified" -> {"paid", "in_progress"}
      [] s = "paid" -> {"closed", "verified"}
      [] OTHER -> {}]

\* core/budget_service.py get_allowed_payment_transitions
get_allowed_payment_transitions(current_status) ==
  IF current_status \in DOMAIN PAYMENT_TRANSITIONS
    THEN PAYMENT_TRANSITIONS[current_status] ELSE {}

\* core/budget_service.py validate_payment_transition (the is_valid component)
validate_payment_transition(current_status, new_status) ==
  new_status \in get_allowed_payment_transitions(current_status)

\* ------------------------------------------------------------------ stage templates

\* core/stage_templates.py STANDARD_STAGES (names left out)
STANDARD_STAGES ==
  << [order |-> 1,  is_checkpoint |-> FALSE, is_parallel |-> FALSE],
     [order |-> 2,  is_checkpoint |-> TRUE,  is_parallel |-> FALSE],
     [order |-> 3,  is_checkpoint |-> TRUE,  is_parallel |-> FALSE],
     [order |-> 4,  is_checkpoint |-> FALSE, is_parallel |-> FALSE],
     [order |-> 5,  is_checkpoint |-> FALSE, is_parallel |-> FALSE],
     [order |-> 6,  is_checkpoint |-> TRUE,  is_parallel |-> FALSE],
     [order |-> 7,  is_checkpoint |-> TRUE,  is_parallel |-> FALSE],
     [order |-> 8,  is_checkpoint |-> FALSE, is_parallel |-> FALSE],
     [order |-> 9,  is_checkpoint |-> FALSE, is_parallel |-> FALSE],
     [order |-> 10, is_checkpoint |-> FALSE, is_parallel |-> FALSE],
     [order |-> 11, is_checkpoint |-> FALSE, is_parallel |-> FALSE],
     [order |-> 12, is_checkpoint |-> FALSE, is_parallel |-> FALSE],
     [order |-> 13, is_checkpoint |-> TRUE,  is_parallel |-> FALSE] >>

\* core/stage_templates.py CUSTOM_ITEM_SUBSTAGES (its length; names left out)
CUSTOM_ITEM_SUBSTAGES == 5

\* core/stage_templates.py build_parallel_stages default start_order
PARALLEL_START_ORDER == 100

\* core/stage_templates.py build_parallel_stages order step between items
PARALLEL_ITEM_STEP == 10

\* a build_parallel_stages that numbers the stages of all items consecutively
build_parallel_stages_dense(selected_items) ==
  [k \in 1..(Len(selected_items) * CUSTOM_ITEM_SUBSTAGES) |->
     LET idx == (k - 1) \div CUSTOM_ITEM_SUBSTAGES
         sub_idx == (k - 1) % CUSTOM_ITEM_SUBSTAGES
     IN [order |-> PARALLEL_START_ORDER + idx + sub_idx,
         is_checkpoint |-> FALSE, is_parallel |-> TRUE]]

\* core/stage_templates.py build_parallel_stages
build_parallel_stages(selected_items) ==
  [k \in 1..(Len(selected_items) * CUSTOM_ITEM_SUBSTAGES) |->
     LET idx == (k - 1) \div CUSTOM_ITEM_SUBSTAGES
         sub_idx == (k - 1) % CUSTOM_ITEM_SUBSTAGES
     IN [order |-> PARALLEL_START_ORDER + (idx * PARALLEL_ITEM_STEP) + sub_idx,
         is_checkpoint |-> FALSE, is_parallel |-> TRUE]]

\* the custom-item selections of the creation wizard that are explored
ItemChoices == { <<>>, <<"kitchen">> }

\* the selections explored by the creation claims: none, one and two items
CreationItemChoices == ItemChoices \cup { <<"kitchen", "wardrobes">> }


\* the stage orders whose buttons are pressed (every stage exists; these are acted on)
ActedOrders == {1, 2, 13}

\* ------------------------------------------------------------------ state

VARIABLES
  users,          \* users table: id -> [telegram_id]
  projects,       \* projects table: id -> [tenant_id, telegram_chat_id, is_active]
  project_roles,  \* project_roles table: set of [project_id, user_id, role]
  stages,         \* stages table: id -> [project_id, order, status, payment_status, ...]
  change_logs,    \* change_logs table: set of rows with autoincrement id
  next_id,        \* the autoincrement sequences
  fsm,            \* FSM store: telegram user -> [state, data...]
  in_flight,      \* change_payment_status handlers between their read and their write
  last,           \* the event handled by the last step and its outcome
  budget_items,   \* budget_items table: id -> [project_id, is_confirmed]
  messages,       \* messages table: set of rows with autoincrement id
  embeddings,     \* embeddings table: set of rows with autoincrement id
  cache,          \* cache table: key -> [value, expires_at]
  ai_calls,       \* the calls of chat_completion made so far
  delivered,      \* the notifications sent: [type, stage_id, recipient, at, bot]
  now,            \* the clock, in minutes
  tenants,        \* tenants table: id -> [is_active]
  adapter_status, \* TelegramAdapter: "stopped", "running" (in start_polling) or "failed"
  polling,        \* the tenants whose bot was handed to start_polling
  bots            \* TelegramAdapter._bots: its tenant ids in insertion order

\* the tables of the budget and of message ingestion
content_tables == << budget_items, messages, embeddings >>

\* the tenants table and the adapter that polls for their bots
supervisor == << tenants, adapter_status, polling, bots >>

\* the cache, the AI provider, the notification outbox and the clock, and the
\* adapter supervisor
service_state == << cache, ai_calls, delivered, now, supervisor >>

vars == << users, projects, project_roles, stages, change_logs, next_id, fsm,
           in_flight, last, content_tables, service_state >>

\* an empty FSM context (state.clear()); "none" stands for an absent string
NoFsm == [state |-> "none", intent |-> "none", project_id |-> None,
          invite_role |-> "none", target_user_id |-> None, target_tg_id |-> None,
          stage_id |-> None, date_mode |-> "none", chat_history |-> << >>]

NoEvent == [op |-> "init"]

\* every variable but last
InitTables ==
  /\ users = << >>
  /\ projects = << >>
  /\ project_roles = {}
  /\ stages = << >>
  /\ change_logs = {}
  /\ next_id = [user |-> 1, project |-> 1, stage |-> 1, log |-> 1,
                budget_item |-> 1, message |-> 1, embedding |-> 1]
  /\ fsm = [t \in TgUsers |-> NoFsm]
  /\ in_flight = {}
  /\ budget_items = << >>
  /\ messages = {}
  /\ embeddings = {}
  /\ cache = << >>
  /\ ai_calls = 0
  /\ delivered = {}
  /\ tenants = << >>
  /\ adapter_status = "stopped"
  /\ polling = {}
  /\ bots = << >>
  /\ now = 0

Init ==
  /\ InitTables
  /\ last = NoEvent

\* ------------------------------------------------------------------ repository

\* db/repositories.py get_user_by_telegram_id
get_user_by_telegram_id(telegram_id) ==
  IF \E u \in DOMAIN users : users[u].telegram_id = telegram_id
    THEN CHOOSE u \in DOMAIN users : users[u].telegram_id = telegram_id
    ELSE None

\* db/repositories.py get_user_roles_in_project
get_user_roles_in_project(user_id, project_id) ==
  { r.role : r \in { x \in project_roles :
                       x.user_id = user_id /\ x.project_id = project_id } }

\* db/repositories.py has_role_in_project (with a specific role)
has_role_in_project(user_id, project_id, role) ==
  \E r \in project_roles :
     r.user_id = user_id /\ r.project_id = project_id /\ r.role = role

\* db/repositories.py get_user_projects: active projects where the user has a role
get_user_projects(user_id) ==
  { p \in DOMAIN projects :
      /\ projects[p].is_active
      /\ \E r \in project_roles : r.project_id = p /\ r.user_id = user_id }

\* db/repositories.py get_project_by_telegram_chat_id
get_project_by_telegram_chat_id(chat_id) ==
  IF \E p \in DOMAIN projects : projects[p].telegram_chat_id = chat_id
    THEN CHOOSE p \in DOMAIN projects : projects[p].telegram_chat_id = chat_id
    ELSE None

StagesOf(project_id) == { s \in DOMAIN stages : stages[s].project_id = project_id }

\* get_next_stage with the order comparison off by one
get_next_stage_skip(stage_id) ==
  LET later == { s \in StagesOf(stages[stage_id].project_id) :
                   stages[s].order > stages[stage_id].order + 1 }
  IN IF later = {} THEN None
     ELSE CHOOSE s \in later : \A t \in later : stages[s].order <= stages[t].order

\* db/repositories.py get_next_stage: lowest order above the stage's, same project
get_next_stage(stage_id) ==
  LET later == { s \in StagesOf(stages[stage_id].project_id) :
                   stages[s].order > stages[stage_id].order }
  IN IF later = {} THEN None
     ELSE CHOOSE s \in later : \A t \in later : stages[s].order <= stages[t].order

\* db/repositories.py launch_project: the stage with the lowest order of the project
first_stage(project_id) ==
  IF StagesOf(project_id) = {} THEN None
  ELSE CHOOSE s \in StagesOf(project_id) :
         \A t \in StagesOf(project_id) : stages[s].order <= stages[t].order

\* function update / extension helpers
Put(f, k, v) == [x \in DOMAIN f \cup {k} |-> IF x = k THEN v ELSE f[x]]
Drop(f, ks) == [x \in DOMAIN f \ ks |-> f[x]]

\* ------------------------------------------------------------------ registration

\* adapters/telegram/handlers.py handle_start: create the User row on first
\* /start, mark a returning user as started
handle_start(tg) ==
  /\ IF get_user_by_telegram_id(tg) = None
       THEN /\ next_id.user <= MaxUsers
            /\ users' = Put(users, next_id.user,
                            [telegram_id |-> tg, is_bot_started |-> TRUE])
            /\ next_id' = [next_id EXCEPT !.user = @ + 1]
       ELSE /\ users' = [users EXCEPT ![get_user_by_telegram_id(tg)].is_bot_started = TRUE]
            /\ UNCHANGED next_id
  /\ last' = [op |-> "start", tg |-> tg]
  /\ UNCHANGED << content_tables, service_state, projects, project_roles, stages, change_logs, fsm, in_flight >>

\* ------------------------------------------------------------------ project creation

\* db/repositories.py create_stages_for_project: one Stage row per definition,
\* status planned and payment_status recorded by the column defaults
create_stages_for_project(project_id, stage_definitions) ==
  [s \in DOMAIN stages \cup
         { next_id.stage + k - 1 : k \in 1..Len(stage_definitions) } |->
     IF s \in DOMAIN stages THEN stages[s]
     ELSE LET defn == stage_definitions[s - next_id.stage + 1]
          IN [project_id |-> project_id, order |-> defn.order,
              status |-> "planned", payment_status |-> "recorded",
              is_parallel |-> defn.is_parallel,
              is_checkpoint |-> defn.is_checkpoint,
              start_date |-> None, end_date |-> None,
              responsible_user_id |-> None, created_at |-> now]]

\* the steps of create_renovation_project, in order: create_project,
\* assign_role, create_stages_for_project (standard and parallel stages in one
\* call)
CreationSteps == << "project", "owner_role", "stages" >>

\* a session that commits after every step: the steps before the failing one persist
persisted_steps_autocommit(fail_step) ==
  IF fail_step = "none" THEN { CreationSteps[i] : i \in DOMAIN CreationSteps }
  ELSE { CreationSteps[i] : i \in { j \in DOMAIN CreationSteps :
            \E k \in DOMAIN CreationSteps : CreationSteps[k] = fail_step /\ j < k } }

\* adapters/telegram/project_handlers.py confirm_project: the steps only flush
\* inside one session and the single commit follows create_renovation_project;
\* an exception in the step fail_step leaves the session block without commit
\* and its writes are rolled back
persisted_steps(fail_step) ==
  IF fail_step = "none" THEN { CreationSteps[i] : i \in DOMAIN CreationSteps } ELSE {}

\* core/project_service.py create_renovation_project, called by
\* adapters/telegram/project_handlers.py confirm_project with the bot's tenant;
\* fail_step names the step whose database call raises, "none" when all succeed
confirm_project_upto(tg, tenant_id, chat, custom_items, max_projects, fail_step) ==
  LET user == get_user_by_telegram_id(tg)
      platform_chat_id ==
        IF chat \in GroupChats /\ get_project_by_telegram_chat_id(chat) = None
          THEN chat ELSE None
      all_stages == STANDARD_STAGES \o build_parallel_stages(custom_items)
      p == next_id.project
      done == persisted_steps(fail_step)
  IN /\ next_id.project <= max_projects
     /\ IF user = None
          THEN /\ last' = [op |-> "confirm_project", tg |-> tg, result |-> "no_user"]
               /\ UNCHANGED << projects, project_roles, stages, next_id >>
               /\ fsm' = [fsm EXCEPT ![tg] = NoFsm]
          ELSE /\ projects' =
                     IF "project" \in done
                       THEN Put(projects, p,
                              [tenant_id |-> tenant_id, telegram_chat_id |-> platform_chat_id,
                               is_active |-> TRUE])
                       ELSE projects
               /\ project_roles' =
                     IF "owner_role" \in done
                       THEN project_roles \cup
                              {[project_id |-> p, user_id |-> user, role |-> "owner"]}
                       ELSE project_roles
               /\ stages' = IF "stages" \in done
                              THEN create_stages_for_project(p, all_stages) ELSE stages
               /\ next_id' = [next_id EXCEPT
                     !.project = IF "project" \in done THEN @ + 1 ELSE @,
                     !.stage = IF "stages" \in done THEN @ + Len(all_stages) ELSE @]
               /\ IF fail_step = "none"
                    THEN /\ last' = [op |-> "confirm_project", tg |-> tg,
                                     result |-> "created", project_id |-> p]
                         /\ fsm' = [fsm EXCEPT ![tg] = NoFsm]
                    ELSE /\ last' = [op |-> "confirm_project", tg |-> tg,
                                     result |-> "failed", project_id |-> p,
                                     fail_step |-> fail_step]
                         /\ UNCHANGED fsm
     /\ UNCHANGED << content_tables, service_state, users, change_logs, in_flight >>

confirm_project(tg, tenant_id, chat, custom_items) ==
  confirm_project_upto(tg, tenant_id, chat, custom_items, MaxProjects, "none")

\* ------------------------------------------------------------------ group link

\* a column constraint that admits every value
telegram_chat_id_unchecked(project_id, chat_id) == TRUE

\* db/models.py Project.telegram_chat_id, unique=True: the flush of the row of
\* project_id with chat_id succeeds iff no other project holds chat_id
telegram_chat_id_unique(project_id, chat_id) ==
  \A q \in DOMAIN projects \ {project_id} : projects[q].telegram_chat_id # chat_id

\* db/repositories.py link_project_to_chat / link_project_to_platform_chat:
\* "none" for a missing project, "IntegrityError" when the flush violates the
\* unique constraint, "linked" otherwise
link_project_to_chat_result(project_id, chat_id) ==
  IF project_id \notin DOMAIN projects THEN "none"
  ELSE IF ~telegram_chat_id_unique(project_id, chat_id) THEN "IntegrityError"
  ELSE "linked"

\* the projects table after a committed link_project_to_chat
link_project_to_chat(project_id, chat_id) ==
  IF link_project_to_chat_result(project_id, chat_id) = "linked"
    THEN [projects EXCEPT ![project_id].telegram_chat_id = chat_id]
    ELSE projects

\* adapters/telegram/group_handlers.py handle_startgroup_deeplink
\* ("/start proj_<id>" in the group chat)
handle_startgroup_deeplink(tg, chat, project_id) ==
  LET existing == get_project_by_telegram_chat_id(chat)
      result == IF existing # None THEN "already_linked"
                ELSE IF project_id \notin DOMAIN projects THEN "not_found"
                ELSE link_project_to_chat_result(project_id, chat)
  IN /\ projects' = IF result = "linked" THEN link_project_to_chat(project_id, chat)
                    ELSE projects
     /\ last' = [op |-> "handle_startgroup_deeplink", tg |-> tg, chat |-> chat,
                 project_id |-> project_id, result |-> result]
     /\ UNCHANGED << users, project_roles, stages, change_logs, next_id, fsm,
                     in_flight, content_tables, service_state >>

\* adapters/telegram/group_handlers.py cmd_link ("/link" in the group chat);
\* link_chat_id is kept in the FSM data of this chat and user, where only a
\* callback of the same chat reads it
cmd_link(tg, chat) ==
  LET existing == get_project_by_telegram_chat_id(chat)
      user == get_user_by_telegram_id(tg)
      listed == IF user = None THEN {} ELSE get_user_projects(user)
      unlinked == { q \in listed : projects[q].telegram_chat_id = None }
      only == CHOOSE q \in unlinked : TRUE
      result == IF existing # None THEN "already_linked"
                ELSE IF user = None THEN "no_user"
                ELSE IF listed = {} THEN "no_projects"
                ELSE IF unlinked = {} THEN "all_linked"
                ELSE IF Cardinality(unlinked) = 1
                  THEN link_project_to_chat_result(only, chat)
                ELSE "picker"
  IN /\ projects' = IF result = "linked" THEN link_project_to_chat(only, chat)
                    ELSE projects
     /\ last' = [op |-> "cmd_link", tg |-> tg, chat |-> chat, result |-> result]
     /\ UNCHANGED << users, project_roles, stages, change_logs, next_id, fsm,
                     in_flight, content_tables, service_state >>

\* adapters/telegram/group_handlers.py link_project_callback ("prjsel:<id>" in
\* the group chat) with _link_project; an IntegrityError leaves the handler
\* before state.clear()
link_project_callback(tg, chat, project_id) ==
  LET result == link_project_to_chat_result(project_id, chat)
  IN /\ projects' = link_project_to_chat(project_id, chat)
     /\ fsm' = IF result = "IntegrityError" THEN fsm ELSE [fsm EXCEPT ![tg] = NoFsm]
     /\ last' = [op |-> "link_project_callback", tg |-> tg, chat |-> chat,
                 project_id |-> project_id, result |-> result]
     /\ UNCHANGED << users, project_roles, stages, change_logs, next_id,
                     in_flight, content_tables, service_state >>

\* ------------------------------------------------------------------ launch

\* adapters/telegram/stage_handlers.py cmd_launch (+ _show_launch_screen), received
\* by the bot of tenant_id (the dispatcher kwarg the handler does not read)
cmd_launch(tg, tenant_id) ==
  LET user == get_user_by_telegram_id(tg)
      listed == IF user = None THEN {} ELSE get_user_projects(user)
  IN /\ fsm' = [fsm EXCEPT ![tg] =
                  IF Cardinality(listed) = 1
                    THEN [NoFsm EXCEPT !.state = "confirming_launch",
                                       !.project_id = CHOOSE p \in listed : TRUE]
                  ELSE IF Cardinality(listed) > 1
                    THEN [NoFsm EXCEPT !.state = "selecting_project",
                                       !.intent = "launch"]
                  ELSE NoFsm]
     /\ last' = [op |-> "cmd_launch", tg |-> tg, tenant_id |-> tenant_id,
                 listed |-> listed]
     /\ UNCHANGED << content_tables, service_state, users, projects, project_roles, stages, change_logs, next_id,
                     in_flight >>

\* db/repositories.py launch_project
launch_project(project_id) ==
  IF first_stage(project_id) = None THEN stages
  ELSE [stages EXCEPT ![first_stage(project_id)].status = "in_progress"]

\* adapters/telegram/stage_handlers.py confirm_launch (callback "launch_yes")
confirm_launch(tg) ==
  /\ fsm[tg].project_id # None
  /\ stages' = launch_project(fsm[tg].project_id)
  /\ fsm' = [fsm EXCEPT ![tg] = NoFsm]
  /\ last' = [op |-> "confirm_launch", tg |-> tg, project_id |-> fsm[tg].project_id]
  /\ UNCHANGED << content_tables, service_state, users, projects, project_roles, change_logs, next_id, in_flight >>

\* ------------------------------------------------------------------ stage status

\* adapters/telegram/notification_handlers.py on_stage_complete ("stgcomplete:<id>")
on_stage_complete(tg, stage_id) ==
  LET next_stage == get_next_stage(stage_id)
  IN /\ stages' =
          IF stages[stage_id].is_checkpoint \/ next_stage = None
            THEN [stages EXCEPT ![stage_id].status = "completed"]
            ELSE [stages EXCEPT ![stage_id].status = "completed",
                                ![next_stage].status = "in_progress"]
     /\ last' = [op |-> "stage_complete", tg |-> tg, stage_id |-> stage_id]
     /\ UNCHANGED << content_tables, service_state, users, projects, project_roles, change_logs, next_id, fsm,
                     in_flight >>

\* adapters/telegram/notification_handlers.py on_stage_status_change
\* ("stgsts:<status>:<id>"; update_stage writes the status unconditionally)
on_stage_status_change(tg, new_status, stage_id) ==
  LET next_stage == get_next_stage(stage_id)
  IN /\ stages' =
          IF new_status = "completed" /\ ~stages[stage_id].is_checkpoint
             /\ next_stage # None
            THEN [stages EXCEPT ![stage_id].status = new_status,
                                ![next_stage].status = "in_progress"]
            ELSE [stages EXCEPT ![stage_id].status = new_status]
     /\ last' = [op |-> "stage_status_change", tg |-> tg, stage_id |-> stage_id,
                 new_status |-> new_status]
     /\ UNCHANGED << content_tables, service_state, users, projects, project_roles, change_logs, next_id, fsm,
                     in_flight >>

\* adapters/telegram/notification_handlers.py on_checkpoint_action
\* ("chkpt:<action>:<id>"): owner only; approve advances get_next_stage, reject
\* sets the stage to delayed
on_checkpoint_action(tg, action, stage_id) ==
  LET db_user == get_user_by_telegram_id(tg)
      user_roles == IF db_user = None THEN {}
                    ELSE get_user_roles_in_project(db_user, stages[stage_id].project_id)
      next_stage == get_next_stage(stage_id)
  IN /\ IF "owner" \notin user_roles
          THEN /\ UNCHANGED stages
               /\ last' = [op |-> "checkpoint", tg |-> tg, stage_id |-> stage_id,
                           action |-> action, result |-> "denied"]
          ELSE /\ stages' =
                    IF action = "approve"
                      THEN IF next_stage = None THEN stages
                           ELSE [stages EXCEPT ![next_stage].status = "in_progress"]
                      ELSE [stages EXCEPT ![stage_id].status = "delayed"]
               /\ last' = [op |-> "checkpoint", tg |-> tg, stage_id |-> stage_id,
                           action |-> action, result |-> "done"]
     /\ UNCHANGED << content_tables, service_state, users, projects, project_roles, change_logs, next_id, fsm,
                     in_flight >>

\* ------------------------------------------------------------------ team

\* db/repositories.py get_or_create_user_by_telegram_id: the id of the user with
\* this telegram id, or the id a new row would get
get_or_create_user_by_telegram_id(telegram_id) ==
  IF get_user_by_telegram_id(telegram_id) # None
    THEN get_user_by_telegram_id(telegram_id) ELSE next_id.user

\* the "role:<x>" callback data explored: a role the keyboard offers, the owner
\* role (RoleType accepts it) and cancel
RoleCallbacks == {"foreman", "owner", "cancel"}

\* adapters/telegram/role_handlers.py cmd_invite (RequireRegistration; private
\* chat; resolve_project lists the user's projects)
cmd_invite(tg) ==
  LET user == get_user_by_telegram_id(tg)
      listed == get_user_projects(user)
      resolved == CHOOSE p \in listed : TRUE
  IN /\ user # None
     /\ fsm' = [fsm EXCEPT ![tg] =
                  IF Cardinality(listed) = 1
                    THEN IF has_permission(get_user_roles_in_project(user, resolved),
                                           "invite_member")
                           THEN [NoFsm EXCEPT !.state = "choosing_role",
                                              !.project_id = resolved]
                           ELSE NoFsm
                  ELSE IF Cardinality(listed) > 1
                    THEN [NoFsm EXCEPT !.state = "selecting_project",
                                       !.intent = "invite"]
                  ELSE NoFsm]
     /\ last' = [op |-> "cmd_invite", tg |-> tg]
     /\ UNCHANGED << content_tables, service_state, users, projects, project_roles, stages, change_logs, next_id,
                     in_flight >>

\* adapters/telegram/role_handlers.py choose_role ("role:<x>" in choosing_role)
choose_role(tg, role_str) ==
  /\ fsm[tg].state = "choosing_role"
  /\ fsm' = [fsm EXCEPT ![tg] =
               IF role_str = "cancel" THEN NoFsm
               ELSE IF role_str \notin RoleType THEN @
               ELSE [@ EXCEPT !.invite_role = role_str, !.state = "entering_contact"]]
  /\ last' = [op |-> "choose_role", tg |-> tg, role |-> role_str]
  /\ UNCHANGED << content_tables, service_state, users, projects, project_roles, stages, change_logs, next_id,
                  in_flight >>

\* adapters/telegram/role_handlers.py process_contact: a message forwarded from
\* the telegram user forward_from, or a text contact (forward_from = None)
process_contact(tg, forward_from) ==
  /\ fsm[tg].state = "entering_contact"
  /\ IF forward_from # None
       THEN LET user == get_or_create_user_by_telegram_id(forward_from)
            IN /\ IF user \in DOMAIN users
                    THEN UNCHANGED << users, next_id >>
                    ELSE /\ next_id.user <= MaxUsers
                         /\ users' = Put(users, user, [telegram_id |-> forward_from,
                                                          is_bot_started |-> FALSE])
                         /\ next_id' = [next_id EXCEPT !.user = @ + 1]
               /\ fsm' = [fsm EXCEPT ![tg] =
                            [@ EXCEPT !.target_user_id = user,
                                      !.target_tg_id = forward_from,
                                      !.state = "confirming_invite"]]
       ELSE /\ fsm' = [fsm EXCEPT ![tg] =
                         [@ EXCEPT !.target_user_id = None, !.target_tg_id = None,
                                   !.state = "confirming_invite"]]
            /\ UNCHANGED << users, next_id >>
  /\ last' = [op |-> "process_contact", tg |-> tg]
  /\ UNCHANGED << content_tables, service_state, projects, project_roles, stages, change_logs, in_flight >>

\* db/repositories.py assign_role
assign_role(project_id, user_id, role) ==
  project_roles \cup {[project_id |-> project_id, user_id |-> user_id, role |-> role]}

\* adapters/telegram/role_handlers.py confirm_invite ("inv:yes" in confirming_invite)
confirm_invite(tg) ==
  LET project_id == fsm[tg].project_id
      role == fsm[tg].invite_role
      target_user_id == fsm[tg].target_user_id
      target_tg_id == fsm[tg].target_tg_id
      user_id == IF target_user_id # None THEN target_user_id
                 ELSE IF target_tg_id # None
                   THEN get_or_create_user_by_telegram_id(target_tg_id)
                 ELSE next_id.user
      already == has_role_in_project(user_id, project_id, role)
  IN /\ fsm[tg].state = "confirming_invite"
     /\ IF already
          THEN /\ UNCHANGED << users, next_id, project_roles >>
               /\ last' = [op |-> "confirm_invite", tg |-> tg, result |-> "already"]
          ELSE /\ Cardinality(project_roles) < MaxRoleRows
               /\ IF user_id \in DOMAIN users
                    THEN UNCHANGED << users, next_id >>
                    ELSE /\ next_id.user <= MaxUsers
                         /\ users' = Put(users, user_id, [telegram_id |-> target_tg_id,
                                                             is_bot_started |-> FALSE])
                         /\ next_id' = [next_id EXCEPT !.user = @ + 1]
               /\ project_roles' = assign_role(project_id, user_id, role)
               /\ last' = [op |-> "confirm_invite", tg |-> tg, result |-> "added",
                           project_id |-> project_id, user_id |-> user_id,
                           role |-> role]
     /\ fsm' = [fsm EXCEPT ![tg] = NoFsm]
     /\ UNCHANGED << content_tables, service_state, projects, stages, change_logs, in_flight >>

\* adapters/telegram/role_handlers.py cancel_invite ("inv:cancel")
cancel_invite(tg) ==
  /\ fsm[tg].state = "confirming_invite"
  /\ fsm' = [fsm EXCEPT ![tg] = NoFsm]
  /\ last' = [op |-> "cancel_invite", tg |-> tg]
  /\ UNCHANGED << content_tables, service_state, users, projects, project_roles, stages, change_logs, next_id,
                  in_flight >>

\* adapters/telegram/role_handlers.py remove_team_member
\* ("tmrm:<project_id>:<user_id>"): the caller must be owner, the target must not;
\* remove_role is called for every role of the target
remove_team_member(tg, project_id, target_user_id) ==
  LET caller == get_user_by_telegram_id(tg)
      caller_roles == get_user_roles_in_project(caller, project_id)
      target_roles == get_user_roles_in_project(target_user_id, project_id)
  IN /\ caller # None
     /\ IF "owner" \notin caller_roles
          THEN /\ UNCHANGED project_roles
               /\ last' = [op |-> "remove_team_member", tg |-> tg, result |-> "denied"]
          ELSE IF "owner" \in target_roles
          THEN /\ UNCHANGED project_roles
               /\ last' = [op |-> "remove_team_member", tg |-> tg, result |-> "owner"]
          ELSE /\ project_roles' =
                    { r \in project_roles :
                        ~(r.user_id = target_user_id /\ r.project_id = project_id
                          /\ r.role \in target_roles) }
               /\ last' = [op |-> "remove_team_member", tg |-> tg, result |-> "removed"]
     /\ UNCHANGED << content_tables, service_state, users, projects, stages, change_logs, next_id, fsm, in_flight >>

\* ------------------------------------------------------------------ payment status

\* create_change_log that adds no row
create_change_log_none(project_id, user_id, entity_type, entity_id, field_name, old_value, new_value) ==
  change_logs

\* db/repositories.py create_change_log
create_change_log(project_id, user_id, entity_type, entity_id, field_name, old_value, new_value) ==
  change_logs \cup
    {[id |-> next_id.log, project_id |-> project_id, user_id |-> user_id,
      entity_type |-> entity_type, entity_id |-> entity_id,
      field_name |-> field_name, old_value |-> old_value, new_value |-> new_value]}

\* adapters/telegram/budget_handlers.py change_payment_status
\* ("bpysts:<status>:<id>"), up to the call of update_stage_payment_status: the
\* stage is loaded into the handler's session and the transition is validated
\* against the loaded payment_status
change_payment_status(tg, new_status, stage_id) ==
  LET user_id == get_user_by_telegram_id(tg)
      current_status == stages[stage_id].payment_status
  IN /\ user_id # None
     /\ stage_id \in DOMAIN stages
     /\ IF validate_payment_transition(current_status, new_status)
          THEN /\ Cardinality(in_flight) < MaxInFlight
               /\ in_flight' = in_flight \cup
                    {[tg |-> tg, user_id |-> user_id, stage_id |-> stage_id,
                      current_status |-> current_status, new_status |-> new_status]}
               /\ last' = [op |-> "change_payment_status", tg |-> tg,
                           stage_id |-> stage_id, result |-> "validated"]
          ELSE /\ UNCHANGED in_flight
               /\ last' = [op |-> "change_payment_status", tg |-> tg,
                           stage_id |-> stage_id, result |-> "invalid"]
     /\ UNCHANGED << content_tables, service_state, users, projects, project_roles, stages, change_logs, next_id, fsm >>

\* db/repositories.py update_stage_payment_status and the handler's commit: the
\* select finds the row the session already holds, whose payment_status is the
\* one loaded before (the identity map does not refresh it); the new status is
\* written and the change logged with the loaded status as old_value
update_stage_payment_status(h) ==
  /\ h \in in_flight
  /\ in_flight' = in_flight \ {h}
  /\ IF h.stage_id \notin DOMAIN stages
       THEN /\ UNCHANGED << stages, change_logs, next_id >>
            /\ last' = [op |-> "update_stage_payment_status", tg |-> h.tg,
                        stage_id |-> h.stage_id, result |-> "no_stage"]
       ELSE /\ next_id.log <= MaxLogs
            /\ stages' = [stages EXCEPT ![h.stage_id].payment_status = h.new_status]
            /\ change_logs' =
                 create_change_log(stages[h.stage_id].project_id, h.user_id, "stage",
                                   h.stage_id, "payment_status", h.current_status,
                                   h.new_status)
            /\ next_id' = [next_id EXCEPT !.log = @ + 1]
            /\ last' = [op |-> "update_stage_payment_status", tg |-> h.tg,
                        stage_id |-> h.stage_id, result |-> "committed"]
  /\ UNCHANGED << content_tables, service_state, users, projects, project_roles, fsm >>

\* ------------------------------------------------------------------ budget items

\* db/repositories.py create_change_log: the keyword-only parameters of the signature
create_change_log_params ==
  {"project_id", "user_id", "entity_type", "entity_id", "field_name", "old_value",
   "new_value", "confirmed_by_user_id"}

\* db/repositories.py create_change_log: the parameters without a default
create_change_log_required == create_change_log_params \ {"confirmed_by_user_id"}

\* a Python call with these keyword arguments binds to create_change_log
create_change_log_binds(kwargs) ==
  kwargs \subseteq create_change_log_params /\ create_change_log_required \subseteq kwargs

\* the outcomes of a call of create_change_log with these keyword arguments: a
\* call that does not bind to the signature in db/repositories.py raises
\* TypeError there; the budget handlers are written against a signature whose
\* user parameter is named changed_by_user_id, with which the row is written,
\* so both outcomes are explored
create_change_log_call(kwargs) ==
  IF create_change_log_binds(kwargs) THEN {"returns"} ELSE {"TypeError", "returns"}

\* adapters/telegram/budget_handlers.py confirm_item: the keyword arguments of
\* its create_change_log call
confirm_item_kwargs ==
  {"project_id", "entity_type", "entity_id", "field_name", "old_value", "new_value",
   "changed_by_user_id", "confirmed_by_user_id"}

\* adapters/telegram/budget_handlers.py delete_item: the keyword arguments of
\* its create_change_log call
delete_item_kwargs ==
  {"project_id", "entity_type", "entity_id", "field_name", "old_value", "new_value",
   "changed_by_user_id"}

\* adapters/telegram/budget_handlers.py start_add_expense ("badd:<project_id>")
\* with _start_expense_wizard
start_add_expense(tg, project_id) ==
  /\ fsm' = [fsm EXCEPT ![tg] = [@ EXCEPT !.state = "selecting_category",
                                         !.project_id = project_id]]
  /\ last' = [op |-> "start_add_expense", tg |-> tg]
  /\ UNCHANGED << users, projects, project_roles, stages, change_logs, next_id,
                  in_flight, content_tables, service_state >>

\* adapters/telegram/budget_handlers.py _save_expense, reached from the last step
\* of the expense wizard (skip_amount, process_material_cost, process_prepayment;
\* the steps that collect category and amounts are folded into this one): the
\* item and its ChangeLog row are written in one session, then
\* _show_budget_overview sets the viewing_budget state; the insert for a project
\* that no longer exists violates the foreign key and nothing happens
save_expense_amounts(tg, work_cost, material_cost, prepayment) ==
  LET project_id == fsm[tg].project_id
      item_id == next_id.budget_item
  IN /\ fsm[tg].state = "selecting_category"
     /\ IF project_id \in DOMAIN projects
          THEN /\ item_id <= MaxBudgetItems
               /\ next_id.log <= MaxLogs
               /\ budget_items' = Put(budget_items, item_id,
                                      [project_id |-> project_id, is_confirmed |-> FALSE,
                                       work_cost |-> work_cost,
                                       material_cost |-> material_cost,
                                       prepayment |-> prepayment])
               /\ change_logs' = create_change_log(project_id, None, "budget_item",
                                                   item_id, "amount", "none", "total")
               /\ next_id' = [next_id EXCEPT !.budget_item = @ + 1, !.log = @ + 1]
               /\ last' = [op |-> "save_expense", tg |-> tg, result |-> "saved",
                           item_id |-> item_id]
               /\ fsm' = [fsm EXCEPT ![tg] = [@ EXCEPT !.state = "viewing_budget"]]
          ELSE /\ UNCHANGED << budget_items, change_logs, next_id, fsm >>
               /\ last' = [op |-> "save_expense", tg |-> tg, result |-> "IntegrityError"]
     /\ UNCHANGED << users, projects, project_roles, stages, in_flight, messages,
                     embeddings, service_state >>

\* the results of float(text) and of parse_expense_amount: a number (kept as
\* an integer), nan, the ValueError raised, and the None returned
Number(n) == [kind |-> "number", value |-> n]
NaN == [kind |-> "nan", value |-> 0]
ValueError == [kind |-> "ValueError", value |-> 0]
NoAmount == [kind |-> "None", value |-> 0]

\* x < 0 and x >= 0 on floats: every comparison with nan is false
float_lt_0(x) == x.kind = "number" /\ x.value < 0
float_ge_0(x) == x.kind = "number" /\ x.value >= 0

\* float(text) of Python after parse_expense_amount stripped blanks and
\* currency signs and turned commas into points; ValueError stands for the
\* exception
float_of(text) ==
  CASE text = "150 000" -> Number(150000)
    [] text = "0" -> Number(0)
    [] text = "-5" -> Number(0 - 5)
    [] text = "nan" -> NaN
    [] OTHER -> ValueError

\* core/budget_service.py parse_expense_amount
parse_expense_amount(text) ==
  LET amount == float_of(text)
  IN IF amount = ValueError THEN NoAmount
     ELSE IF float_lt_0(amount) THEN NoAmount
     ELSE amount

\* the amount one step of the wizard leaves in the FSM data: 0.0 for the skip
\* button (skip_amount), else the parsed text (process_work_cost,
\* process_material_cost, process_prepayment); NoAmount when the step answers
\* that the amount was not recognised and the wizard stays where it is
entered_amount(text) == IF text = "skip" THEN Number(0) ELSE parse_expense_amount(text)

\* the expense wizard from its first amount to _save_expense, with the text
\* (or skip) entered for each amount
enter_expense(tg, work_text, material_text, prepayment_text) ==
  LET work_cost == entered_amount(work_text)
      material_cost == entered_amount(material_text)
      prepayment == entered_amount(prepayment_text)
  IN IF NoAmount \in {work_cost, material_cost, prepayment}
       THEN /\ fsm[tg].state = "selecting_category"
            /\ last' = [op |-> "save_expense", tg |-> tg, result |-> "not_recognised"]
            /\ UNCHANGED << users, projects, project_roles, stages, change_logs, next_id,
                            fsm, in_flight, content_tables, service_state >>
       ELSE save_expense_amounts(tg, work_cost, material_cost, prepayment)

save_expense(tg) == save_expense_amounts(tg, Number(0), Number(0), Number(0))

\* adapters/telegram/budget_handlers.py confirm_item ("bconf:<item_id>"):
\* confirm_budget_item, then create_change_log and the commit; an exception
\* leaves the session uncommitted and the confirmation is rolled back
confirm_item(tg, item_id, outcome) ==
  LET user_id == get_user_by_telegram_id(tg)
  IN /\ user_id # None
     /\ IF item_id \notin DOMAIN budget_items
          THEN /\ UNCHANGED << budget_items, change_logs, next_id >>
               /\ last' = [op |-> "confirm_item", tg |-> tg, result |-> "not_found"]
          ELSE IF outcome = "TypeError"
          THEN /\ UNCHANGED << budget_items, change_logs, next_id >>
               /\ last' = [op |-> "confirm_item", tg |-> tg, result |-> "TypeError"]
          ELSE /\ next_id.log <= MaxLogs
               /\ budget_items' = [budget_items EXCEPT ![item_id].is_confirmed = TRUE]
               /\ change_logs' = create_change_log(budget_items[item_id].project_id,
                                                   user_id, "budget_item", item_id,
                                                   "is_confirmed", "false", "true")
               /\ next_id' = [next_id EXCEPT !.log = @ + 1]
               /\ last' = [op |-> "confirm_item", tg |-> tg, result |-> "confirmed",
                           item_id |-> item_id]
     /\ UNCHANGED << users, projects, project_roles, stages, fsm, in_flight, messages,
                     embeddings, service_state >>

\* adapters/telegram/budget_handlers.py delete_item ("bdel:<item_id>"):
\* create_change_log, then delete_budget_item and the commit; an exception
\* leaves the session uncommitted
delete_item(tg, item_id, outcome) ==
  LET user_id == get_user_by_telegram_id(tg)
  IN /\ user_id # None
     /\ IF item_id \notin DOMAIN budget_items
          THEN /\ UNCHANGED << budget_items, change_logs, next_id, fsm >>
               /\ last' = [op |-> "delete_item", tg |-> tg, result |-> "not_found"]
          ELSE IF outcome = "TypeError"
          THEN /\ UNCHANGED << budget_items, change_logs, next_id, fsm >>
               /\ last' = [op |-> "delete_item", tg |-> tg, result |-> "TypeError"]
          ELSE /\ next_id.log <= MaxLogs
               /\ change_logs' = create_change_log(budget_items[item_id].project_id,
                                                   user_id, "budget_item", item_id,
                                                   "deleted", "total", "none")
               /\ budget_items' = Drop(budget_items, {item_id})
               /\ next_id' = [next_id EXCEPT !.log = @ + 1]
               /\ fsm' = [fsm EXCEPT ![tg] =
                            [@ EXCEPT !.state = "viewing_budget",
                                      !.project_id =
                                         IF @ # None THEN @
                                         ELSE budget_items[item_id].project_id]]
               /\ last' = [op |-> "delete_item", tg |-> tg, result |-> "deleted",
                           item_id |-> item_id]
     /\ UNCHANGED << users, projects, project_roles, stages, in_flight, messages,
                     embeddings, service_state >>

\* ------------------------------------------------------------------ incoming messages

\* An incoming Telegram message:
\*   bot           the tenant whose bot received the update (a bot's Telegram
\*                 user id and @username are identified with its tenant)
\*   chat          the chat id (the sender's id in a private chat)
\*   from_tg       the sender's telegram id
\*   message_id    Telegram's message id
\*   kind          "text", "voice" or "photo"
\*   text, caption the text of a text message, the caption of a photo ("" if absent)
\*   reply_to      the bot whose message this one replies to, or None
\*   mention       the bot whose @username a mention entity names, or None
\*   text_mention  the bot whose user id a text_mention entity carries, or None

\* the texts explored: a command, a text of two characters, a plain text and a
\* text that starts with the configured pattern
Texts == {"/ask budget", "ok", "walls done", "bot budget"}

\* text.startswith("/")
starts_with_slash(text) == text \in {"/ask budget"}

\* len(text.strip()) < 3
shorter_than_3(text) == text \in {"", "ok"}

\* config.py mention_gate_enabled (default)
mention_gate_enabled == TRUE

\* MentionGateMiddleware.__init__: the compiled mention_gate_patterns ("bot"),
\* searched as ^\s*bot\b
matches_custom_pattern(text) == text \in {"bot budget"}

\* adapters/telegram/bot.py start: bots_to_poll[0], whose id and username
\* configure the one MentionGateMiddleware of the dispatcher
primary == CHOOSE t \in Tenants : \A u \in Tenants : t <= u

chat_type(chat) == IF chat \in GroupChats THEN "group" ELSE "private"

\* adapters/telegram/mention_gate.py MentionGateMiddleware._is_directed_at_bot
is_directed_at_bot(message) ==
  LET bot_id == primary
      bot_username == primary
      text == IF message.text # "" THEN message.text ELSE message.caption
  IN \/ message.reply_to # None /\ message.reply_to = bot_id
     \/ message.mention # None /\ message.mention = bot_username
     \/ message.text_mention # None /\ message.text_mention = bot_id
     \/ matches_custom_pattern(text)

\* adapters/telegram/mention_gate.py MentionGateMiddleware.__call__: TRUE when
\* the handler chain is called
mention_gate(message) ==
  \/ chat_type(message.chat) = "private"
  \/ ~mention_gate_enabled
  \/ (message.text # "" /\ starts_with_slash(message.text))
  \/ is_directed_at_bot(message)

\* services/ai_client.py is_ai_configured: a deployment with provider credentials
is_ai_configured == TRUE

\* adapters/telegram/ai_handlers.py _resolve_project_for_storage
resolve_project_for_storage(message) ==
  LET user == get_user_by_telegram_id(message.from_tg)
      listed == get_user_projects(user)
  IN IF user = None THEN [user_id |-> None, project_id |-> None]
     ELSE IF chat_type(message.chat) = "group"
       THEN [user_id |-> user, project_id |-> get_project_by_telegram_chat_id(message.chat)]
     ELSE IF listed # {}
       THEN [user_id |-> user,
             project_id |-> CHOOSE p \in listed : \A q \in listed : p >= q]
     ELSE [user_id |-> user, project_id |-> None]

\* adapters/telegram/ai_handlers.py _store_and_embed_message with
\* db/repositories.py create_message and services/embedding_service.py
\* embed_and_store; canonical is TRUE when build_message_text finds a text
store_and_embed_message(project_id, user_id, chat_id, message_id, message_type, canonical) ==
  /\ next_id.message <= MaxMessages
  /\ messages' = messages \cup
        {[id |-> next_id.message, project_id |-> project_id, user_id |-> user_id,
          platform_chat_id |-> chat_id, platform_message_id |-> message_id,
          message_type |-> message_type]}
  /\ IF project_id # None /\ canonical /\ is_ai_configured
       THEN /\ embeddings' = embeddings \cup
                  {[id |-> next_id.embedding, project_id |-> project_id,
                    message_id |-> next_id.message]}
            /\ next_id' = [next_id EXCEPT !.message = @ + 1, !.embedding = @ + 1]
       ELSE /\ UNCHANGED embeddings
            /\ next_id' = [next_id EXCEPT !.message = @ + 1]

\* adapters/telegram/ai_handlers.py store_text_message
store_text_message(message) ==
  LET resolved == resolve_project_for_storage(message)
  IN /\ IF shorter_than_3(message.text)
          THEN UNCHANGED << messages, embeddings, next_id >>
          ELSE store_and_embed_message(resolved.project_id, resolved.user_id,
                                       message.chat, message.message_id, "text", TRUE)
     /\ last' = [op |-> "message", message |-> message, passed |-> TRUE,
                 handler |-> "store_text_message", replied |-> FALSE]
     /\ UNCHANGED << fsm, cache, ai_calls >>

\* adapters/telegram/ai_handlers.py handle_voice_message; transcribed is FALSE
\* when the download or the transcription fails
handle_voice_message(message, transcribed) ==
  LET resolved == resolve_project_for_storage(message)
  IN /\ store_and_embed_message(resolved.project_id, resolved.user_id,
                                message.chat, message.message_id, "voice", transcribed)
     /\ last' = [op |-> "message", message |-> message, passed |-> TRUE,
                 handler |-> "handle_voice_message", replied |-> TRUE]
     /\ UNCHANGED << fsm, cache, ai_calls >>

\* adapters/telegram/ai_handlers.py handle_photo_message; described is FALSE
\* when the download or the description fails
handle_photo_message(message, described) ==
  LET resolved == resolve_project_for_storage(message)
  IN /\ store_and_embed_message(resolved.project_id, resolved.user_id,
                                message.chat, message.message_id, "image",
                                described \/ message.caption # "")
     /\ last' = [op |-> "message", message |-> message, passed |-> TRUE,
                 handler |-> "handle_photo_message", replied |-> TRUE]
     /\ UNCHANGED << fsm, cache, ai_calls >>

\* services/rag_service.py ask_project: the ttl of a cached answer (300 s), in minutes
ASK_CACHE_TTL == 5

\* a cache_get that does not look at expires_at
pg_cache_get_any(key) ==
  IF key \in DOMAIN cache THEN cache[key].value ELSE None

\* services/pg_cache.py pg_cache_get with the SQL function cache_get: the
\* value under the key unless it has expired, None on a miss
pg_cache_get(key) ==
  IF key \in DOMAIN cache /\ cache[key].expires_at > now THEN cache[key].value ELSE None

\* services/pg_cache.py pg_cache_set with the SQL function cache_set, as the
\* calling session sees the table after it
pg_cache_set(key, value, ttl) ==
  Put(cache, key, [value |-> value, expires_at |-> now + ttl])

\* the cache table after a session that called pg_cache_set ends: the write
\* is kept when the session committed and rolled back when it did not
session_end(written, committed) == IF committed THEN written ELSE cache

\* adapters/telegram/ai_handlers.py cmd_ask with project_resolver.py
\* resolve_project and services/rag_service.py ask_project: the session of
\* cmd_ask is opened with async_session_factory() and left without a commit
cmd_ask(message) ==
  LET user == get_user_by_telegram_id(message.from_tg)
      listed == get_user_projects(user)
      question == "budget"
      resolved ==
        IF user = None THEN None
        ELSE IF chat_type(message.chat) = "group"
          THEN get_project_by_telegram_chat_id(message.chat)
        ELSE IF Cardinality(listed) = 1 THEN CHOOSE p \in listed : TRUE
        ELSE None
      picker == user # None /\ chat_type(message.chat) = "private" /\ Cardinality(listed) > 1
      cache_key == << "ask", resolved, question >>
      cached_answer == pg_cache_get(cache_key)
  IN /\ fsm' = IF picker
                 THEN [fsm EXCEPT ![message.from_tg] =
                         [@ EXCEPT !.state = "report_selecting_project", !.intent = "ask"]]
                 ELSE fsm
     /\ IF resolved = None
          THEN /\ UNCHANGED << cache, ai_calls >>
               /\ last' = [op |-> "message", message |-> message, passed |-> TRUE,
                           handler |-> "cmd_ask", replied |-> TRUE,
                           project_id |-> None, answer_from |-> "none", at |-> now]
          ELSE IF cached_answer # None
          THEN /\ UNCHANGED << cache, ai_calls >>
               /\ last' = [op |-> "message", message |-> message, passed |-> TRUE,
                           handler |-> "cmd_ask", replied |-> TRUE,
                           project_id |-> resolved, answer_from |-> "cache", at |-> now]
          ELSE /\ ai_calls < MaxAiCalls
               /\ ai_calls' = ai_calls + 1
               /\ cache' = session_end(pg_cache_set(cache_key, "answer", ASK_CACHE_TTL),
                                       FALSE)
               /\ last' = [op |-> "message", message |-> message, passed |-> TRUE,
                           handler |-> "cmd_ask", replied |-> TRUE,
                           project_id |-> resolved, answer_from |-> "provider", at |-> now]
     /\ UNCHANGED << messages, embeddings, next_id >>

\* the FSM states with a message handler in a router before the AI router
MessageWizardStates ==
  {"entering_contact", "setting_start_date", "setting_duration", "setting_end_date"}

\* the dispatcher feeding one message update: the outer MentionGateMiddleware,
\* then the first handler of the routers (bot.py _register_routers) whose
\* filter matches; a sender inside a wizard step that takes a message is
\* served by that step's handler instead (process_contact, process_start_date,
\* process_end_date).  media is FALSE
\* when the download or the AI processing of a voice or photo fails.
on_message(message, media) ==
  /\ fsm[message.from_tg].state \notin MessageWizardStates
  /\ IF ~mention_gate(message)
       THEN /\ last' = [op |-> "message", message |-> message, passed |-> FALSE,
                        handler |-> "none", replied |-> FALSE]
            /\ UNCHANGED << messages, embeddings, next_id, fsm, cache, ai_calls >>
       ELSE IF message.kind = "voice" THEN handle_voice_message(message, media)
       ELSE IF message.kind = "photo" THEN handle_photo_message(message, media)
       ELSE IF starts_with_slash(message.text) THEN cmd_ask(message)
       ELSE store_text_message(message)
  /\ UNCHANGED << users, projects, project_roles, stages, change_logs, in_flight,
                  budget_items, delivered, now, supervisor >>

\* the clock, in minutes; last keeps the last handler that ran
tick(step, limit) ==
  /\ now + step <= limit
  /\ now' = now + step
  /\ UNCHANGED << users, projects, project_roles, stages, change_logs, next_id, fsm,
                  in_flight, last, content_tables, cache, ai_calls, delivered,
                  supervisor >>

\* ------------------------------------------------------------------ reports

\* adapters/telegram/report_handlers.py report_select_project: the intents of
\* its dispatch table
ReportDispatch == {"report", "status", "next_stage", "deadline"}

\* adapters/telegram/report_handlers.py cmd_report ("/report" in the private
\* chat) with _resolve_for_report and project_resolver.py resolve_project;
\* executed names the command that ran and for which project
cmd_report(tg) ==
  LET user == get_user_by_telegram_id(tg)
      listed == IF user = None THEN {} ELSE get_user_projects(user)
      picker == Cardinality(listed) > 1
      resolved == IF Cardinality(listed) = 1 THEN CHOOSE q \in listed : TRUE ELSE None
  IN /\ fsm' = [fsm EXCEPT ![tg] =
                  IF picker
                    THEN [NoFsm EXCEPT !.state = "report_selecting_project",
                                       !.intent = "report"]
                    ELSE NoFsm]
     /\ last' = [op |-> "cmd_report", tg |-> tg, picker |-> picker,
                 executed |-> IF resolved # None THEN "report" ELSE "none",
                 project_id |-> resolved]
     /\ UNCHANGED << users, projects, project_roles, stages, change_logs, next_id,
                     in_flight, content_tables, service_state >>

\* adapters/telegram/report_handlers.py report_select_project ("prjsel:<id>"
\* in state ReportSelection.selecting_project, private chat): the intents of
\* the dispatch table run their report for project_id; for "ask" and
\* "backfill" the handler only answers that the project was chosen and asks
\* for the command again, any other intent gets no answer; the state and the
\* chosen project are cleared before that
report_select_project(tg, project_id) ==
  LET intent == fsm[tg].intent
  IN /\ fsm[tg].state = "report_selecting_project"
     /\ fsm' = [fsm EXCEPT ![tg] = NoFsm]
     /\ last' = [op |-> "report_select_project", tg |-> tg, intent |-> intent,
                 chosen |-> project_id,
                 executed |-> IF intent \in ReportDispatch THEN intent ELSE "none",
                 project_id |-> IF intent \in ReportDispatch THEN project_id ELSE None]
     /\ UNCHANGED << users, projects, project_roles, stages, change_logs, next_id,
                     in_flight, content_tables, service_state >>

\* ------------------------------------------------------------------ stage dates

\* minutes in an hour and in a day
Hour == 60
Day == 1440

\* core/stage_service.py parse_date: the dates a user can enter are midnights,
\* past ones included; the clock starts at the midnight numbered 0
Yesterday == 0 - Day
Dates == {Yesterday, Day}

\* adapters/telegram/stage_handlers.py start_exact_dates_mode ("stgex:<id>")
start_exact_dates_mode(tg, stage_id) ==
  /\ fsm' = [fsm EXCEPT ![tg] = [@ EXCEPT !.state = "setting_start_date",
                                         !.stage_id = stage_id,
                                         !.date_mode = "exact"]]
  /\ last' = [op |-> "start_exact_dates_mode", tg |-> tg, stage_id |-> stage_id]
  /\ UNCHANGED << users, projects, project_roles, stages, change_logs, next_id,
                  in_flight, content_tables, service_state >>

\* adapters/telegram/stage_handlers.py start_duration_mode ("stgdur:<id>")
start_duration_mode(tg, stage_id) ==
  /\ fsm' = [fsm EXCEPT ![tg] = [@ EXCEPT !.state = "setting_start_date",
                                         !.stage_id = stage_id,
                                         !.date_mode = "duration"]]
  /\ last' = [op |-> "start_duration_mode", tg |-> tg, stage_id |-> stage_id]
  /\ UNCHANGED << users, projects, project_roles, stages, change_logs, next_id,
                  in_flight, content_tables, service_state >>

\* adapters/telegram/stage_handlers.py process_duration (a number of days
\* within 1..365), with _show_stage_detail
process_duration(tg, days) ==
  LET stage_id == fsm[tg].stage_id
  IN /\ fsm[tg].state = "setting_duration"
     /\ IF stage_id \notin DOMAIN stages \/ stages[stage_id].start_date = None
          THEN /\ fsm' = [fsm EXCEPT ![tg] = NoFsm]
               /\ UNCHANGED stages
               /\ last' = [op |-> "process_duration", tg |-> tg, stage_id |-> stage_id,
                           result |-> "no_start_date"]
          ELSE /\ stages' = [stages EXCEPT ![stage_id].end_date =
                                stages[stage_id].start_date + days * Day]
               /\ fsm' = [fsm EXCEPT ![tg] =
                            [@ EXCEPT !.state = "viewing_stage_detail",
                                      !.project_id = stages[stage_id].project_id]]
               /\ last' = [op |-> "process_duration", tg |-> tg, stage_id |-> stage_id,
                           result |-> "set"]
     /\ UNCHANGED << users, projects, project_roles, change_logs, next_id,
                     in_flight, content_tables, service_state >>

\* adapters/telegram/stage_handlers.py process_start_date (a parsed date dt)
process_start_date(tg, dt) ==
  LET stage_id == fsm[tg].stage_id
  IN /\ fsm[tg].state = "setting_start_date"
     /\ stages' = IF stage_id \in DOMAIN stages
                    THEN [stages EXCEPT ![stage_id].start_date = dt] ELSE stages
     /\ fsm' = [fsm EXCEPT ![tg] =
                  [@ EXCEPT !.state = IF fsm[tg].date_mode = "duration"
                                        THEN "setting_duration" ELSE "setting_end_date"]]
     /\ last' = [op |-> "process_start_date", tg |-> tg, stage_id |-> stage_id]
     /\ UNCHANGED << users, projects, project_roles, change_logs, next_id,
                     in_flight, content_tables, service_state >>

\* adapters/telegram/stage_handlers.py process_end_date (a parsed date dt), with
\* _show_stage_detail
process_end_date(tg, dt) ==
  LET stage_id == fsm[tg].stage_id
  IN /\ fsm[tg].state = "setting_end_date"
     /\ IF stage_id \notin DOMAIN stages
          THEN /\ fsm' = [fsm EXCEPT ![tg] = NoFsm]
               /\ UNCHANGED stages
               /\ last' = [op |-> "process_end_date", tg |-> tg, stage_id |-> stage_id,
                           result |-> "no_stage"]
          ELSE IF stages[stage_id].start_date # None /\ dt <= stages[stage_id].start_date
          THEN /\ UNCHANGED << fsm, stages >>
               /\ last' = [op |-> "process_end_date", tg |-> tg, stage_id |-> stage_id,
                           result |-> "rejected"]
          ELSE /\ stages' = [stages EXCEPT ![stage_id].end_date = dt]
               /\ fsm' = [fsm EXCEPT ![tg] =
                            [@ EXCEPT !.state = "viewing_stage_detail",
                                      !.project_id = stages[stage_id].project_id]]
               /\ last' = [op |-> "process_end_date", tg |-> tg, stage_id |-> stage_id,
                           result |-> "set"]
     /\ UNCHANGED << users, projects, project_roles, change_logs, next_id,
                     in_flight, content_tables, service_state >>

\* ------------------------------------------------------------------ scheduler

\* db/repositories.py get_stages_due_soon at time t
get_stages_due_soon(t, within_days) ==
  { s \in DOMAIN stages :
      /\ projects[stages[s].project_id].is_active
      /\ stages[s].status \in {"in_progress", "delayed"}
      /\ stages[s].end_date # None
      /\ stages[s].end_date <= t + within_days * Day
      /\ stages[s].end_date > t }

\* db/repositories.py get_project_owner_ids
get_project_owner_ids(project_id) ==
  { r.user_id : r \in { x \in project_roles :
                          x.project_id = project_id /\ x.role \in {"owner", "co_owner"} } }

\* adapters/telegram/bot.py TelegramAdapter.bot: the bot registered first, named
\* by its tenant. None is the one bot of the specifications that leave the
\* adapter out.
bot == IF bots = << >> THEN None ELSE bots[1]

\* adapters/telegram/notification_handlers.py deliver_notification at time t,
\* called by _send_notification of TelegramAdapter.start with self.bot: the
\* deliveries made; recipients without a Telegram id or who never started
\* the bot are skipped, a failing send_message is logged and skipped
deliver_notification(notification_type, stage_id, recipient_user_ids, send_fail, t) ==
  { [notification_type |-> notification_type, stage_id |-> stage_id, recipient |-> u, at |-> t,
     bot |-> bot] :
      u \in { x \in recipient_user_ids \cap DOMAIN users :
                /\ users[x].telegram_id # None
                /\ users[x].is_bot_started
                /\ x \notin send_fail } }

\* core/scheduler.py _check_deadlines, fired by the interval trigger an hour
\* after the previous run.  The whole loop over the stages is inside one try:
\* a database call that fails for the stage db_fail (get_project_owner_ids, or
\* get_user_by_id inside deliver_notification) ends the loop, and only the
\* stages iterated before it (before, in the order the query returned them)
\* were served.  send_fail are the recipients for whom send_message fails.
check_deadlines(db_fail, before, send_fail) ==
  LET t == now + Hour
      due == get_stages_due_soon(t, 1)
      served == IF db_fail = None THEN due ELSE before
  IN /\ t <= MaxClock
     /\ db_fail \in due \cup {None}
     /\ before \subseteq due \ {db_fail}
     /\ db_fail = None => before = {}
     /\ now' = t
     /\ delivered' = delivered \cup
          UNION { deliver_notification("deadline_approaching", s,
                     get_project_owner_ids(stages[s].project_id)
                       \cup ({stages[s].responsible_user_id} \ {None}),
                     send_fail, t) :
                  s \in served }
     /\ last' = [op |-> "check_deadlines", due |-> due, served |-> served,
                 failed |-> db_fail]
     /\ UNCHANGED << users, projects, project_roles, stages, change_logs, next_id, fsm,
                     in_flight, content_tables, cache, ai_calls, supervisor >>

\* db/repositories.py update_stage with responsible_user_id: the repository
\* operation that gives a stage a responsible user (the Telegram handlers of
\* this repository only record a free-text contact)
update_stage_responsible_user_id(stage_id, user_id) ==
  /\ stage_id \in DOMAIN stages
  /\ user_id \in DOMAIN users
  /\ stages' = [stages EXCEPT ![stage_id].responsible_user_id = user_id]
  /\ last' = [op |-> "update_stage", stage_id |-> stage_id,
              field_name |-> "responsible_user_id"]
  /\ UNCHANGED << users, projects, project_roles, change_logs, next_id, fsm,
                  in_flight, content_tables, service_state >>

\* the interval of the status-update job, in hours, and its idle_days argument
StatusUpdateHours == 6
IdleDays == 3

\* db/repositories.py get_stages_needing_status_update at time t: cutoff is
\* computed and appears in no condition of the query
get_stages_needing_status_update(t, idle_days) ==
  LET cutoff == t - idle_days * Day
  IN { s \in DOMAIN stages :
         /\ projects[stages[s].project_id].is_active
         /\ stages[s].status = "in_progress"
         /\ stages[s].responsible_user_id # None }

\* core/scheduler.py _check_status_updates, fired by the interval trigger six
\* hours after the previous run; db_fail, before and send_fail as in
\* check_deadlines
check_status_updates(db_fail, before, send_fail) ==
  LET t == now + StatusUpdateHours * Hour
      prompted == get_stages_needing_status_update(t, IdleDays)
      served == IF db_fail = None THEN prompted ELSE before
  IN /\ t <= MaxStatusClock
     /\ Cardinality(delivered) < MaxDelivered
     /\ db_fail \in prompted \cup {None}
     /\ before \subseteq prompted \ {db_fail}
     /\ db_fail = None => before = {}
     /\ now' = t
     /\ delivered' = delivered \cup
          UNION { deliver_notification("status_update_request", s,
                     {stages[s].responsible_user_id} \ {None}, send_fail, t) :
                  s \in served }
     /\ last' = [op |-> "check_status_updates", due |-> prompted, served |-> served,
                 failed |-> db_fail]
     /\ UNCHANGED << users, projects, project_roles, stages, change_logs, next_id, fsm,
                     in_flight, content_tables, cache, ai_calls, supervisor >>

\* ------------------------------------------------------------------ tenants
\* A tenant is identified with its bot token: the tenant of token t has id t.

\* the frame of the operations on tenants and on the adapter
supervisor_frame ==
  UNCHANGED << users, projects, project_roles, stages, change_logs, next_id, fsm,
               in_flight, content_tables, cache, ai_calls, delivered, now >>

\* admin_api.py create_tenant_endpoint (POST /tenants): 409 for a known token,
\* else a new active tenant; the running adapter is not told
create_tenant_endpoint(token) ==
  /\ IF token \in DOMAIN tenants
       THEN /\ UNCHANGED tenants
            /\ last' = [op |-> "create_tenant_endpoint", tenant_id |-> token, result |-> 409]
       ELSE /\ tenants' = Put(tenants, token, [is_active |-> TRUE])
            /\ last' = [op |-> "create_tenant_endpoint", tenant_id |-> token, result |-> 201]
  /\ UNCHANGED << adapter_status, polling, bots >>
  /\ supervisor_frame

\* admin_api.py deactivate_tenant (DELETE /tenants/{id}): sets is_active and
\* commits; nothing else is touched
deactivate_tenant(tenant_id) ==
  /\ IF tenant_id \notin DOMAIN tenants
       THEN /\ UNCHANGED tenants
            /\ last' = [op |-> "deactivate_tenant", tenant_id |-> tenant_id, result |-> 404]
       ELSE /\ tenants' = [tenants EXCEPT ![tenant_id].is_active = FALSE]
            /\ last' = [op |-> "deactivate_tenant", tenant_id |-> tenant_id, result |-> 204]
  /\ UNCHANGED << adapter_status, polling, bots >>
  /\ supervisor_frame

\* adapters/telegram/admin_handlers.py cmd_removebot ("/removebot <id>" sent by
\* an admin or by anybody else): sets is_active, commits and answers that the
\* process has to be restarted
cmd_removebot(is_admin, tenant_id) ==
  LET result == IF ~is_admin THEN "ignored"
                ELSE IF tenant_id \notin DOMAIN tenants THEN "not_found"
                ELSE IF ~tenants[tenant_id].is_active THEN "already_inactive"
                ELSE "deactivated"
  IN /\ tenants' = IF result = "deactivated"
                     THEN [tenants EXCEPT ![tenant_id].is_active = FALSE]
                     ELSE tenants
     /\ last' = [op |-> "cmd_removebot", tenant_id |-> tenant_id, result |-> result]
     /\ UNCHANGED << adapter_status, polling, bots >>
     /\ supervisor_frame

\* the orders in which the elements of a set can be listed
Orderings(S) ==
  { q \in [1..Cardinality(S) -> S] : \A i, j \in 1..Cardinality(S) : i # j => q[i] # q[j] }

\* adapters/telegram/bot.py TelegramAdapter.start with _ensure_tenant_in_db and
\* _create_bot. env_token is settings.telegram_bot_token (None when unset);
\* me_fail are the tenants whose bot.me() raises. The bot of the configured
\* token is created outside the try block, so its failure leaves start(); the
\* bots of the other active tenants are created inside it, a failure is logged
\* and the tenant left out. start_polling receives the bots created. _bots
\* holds the bot of the configured token first, then the others in the order
\* get_all_active_tenants returned them (any order).
start(env_token, me_fail) ==
  LET table == IF env_token # None /\ env_token \notin DOMAIN tenants
                 THEN Put(tenants, env_token, [is_active |-> TRUE]) ELSE tenants
      env_bots == {env_token} \ {None}
      active == { t \in DOMAIN table : table[t].is_active }
      created == { t \in active \ env_bots : t \notin me_fail }
      bots_to_poll == env_bots \cup created
      result == IF env_bots \cap me_fail # {} THEN "raised"
                ELSE IF bots_to_poll = {} THEN "RuntimeError"
                ELSE "polling"
  IN /\ adapter_status = "stopped"
     /\ tenants' = table
     /\ adapter_status' = IF result = "polling" THEN "running" ELSE "failed"
     /\ polling' = IF result = "polling" THEN bots_to_poll ELSE {}
     /\ \E order \in Orderings(created) :
          bots' = IF result = "polling"
                    THEN (IF env_token = None THEN << >> ELSE << env_token >>) \o order
                    ELSE << >>
     /\ last' = [op |-> "start", env_token |-> env_token, me_fail |-> me_fail,
                 attempted |-> env_bots \cup active, result |-> result]
     /\ supervisor_frame

\* adapters/telegram/bot.py TelegramAdapter.stop at the end of the process
\* (__main__.py); the next start() belongs to a new process
stop ==
  /\ adapter_status # "stopped"
  /\ adapter_status' = "stopped"
  /\ polling' = {}
  /\ bots' = << >>
  /\ last' = [op |-> "stop"]
  /\ UNCHANGED tenants
  /\ supervisor_frame

\* adapters/telegram/bot.py start: dp.start_polling fetches an update for the
\* bot of tenant_id and inject_tenant_id attaches the tenant to it
feed_update(tenant_id) ==
  /\ adapter_status = "running"
  /\ tenant_id \in polling
  /\ last' = [op |-> "feed_update", tenant_id |-> tenant_id]
  /\ UNCHANGED supervisor
  /\ supervisor_frame

\* ------------------------------------------------------------------ search

\* services/embedding_service.py search_hybrid RRF_K
RRF_K == 60

\* the first n elements of a sequence (LIMIT n, [:n])
Take(seq, n) == SubSeq(seq, 1, IF Len(seq) < n THEN Len(seq) ELSE n)

\* the position of id in a sequence without repetition, 0 when absent
PositionIn(seq, id) ==
  IF \E i \in DOMAIN seq : seq[i] = id THEN CHOOSE i \in DOMAIN seq : seq[i] = id ELSE 0

\* the common multiple of the RRF denominators, scores being kept as integers
RrfScale == 61 * 62 * 63 * 64

\* services/embedding_service.py search_similar: vector_ranking is the list of
\* the project's embeddings with similarity >= min_similarity, nearest first
search_similar(vector_ranking, top_k) == Take(vector_ranking, top_k)

\* services/embedding_service.py search_fulltext: fts_ranking is the list of
\* the project's embeddings matching the tsquery, by descending ts_rank
search_fulltext(fts_ranking, top_k) == Take(fts_ranking, top_k)

\* sorted(..., reverse=True) of Python: by descending score, elements of equal
\* score in the order of the input
RECURSIVE sorted_by_score(_, _)
sorted_by_score(items, score) ==
  IF items = << >> THEN << >>
  ELSE LET best == CHOOSE i \in DOMAIN items :
                     /\ \A j \in DOMAIN items : score[items[j]] <= score[items[i]]
                     /\ \A j \in DOMAIN items : score[items[j]] = score[items[i]] => i <= j
           rest == [k \in 1..(Len(items) - 1) |-> IF k < best THEN items[k] ELSE items[k + 1]]
       IN << items[best] >> \o sorted_by_score(rest, score)

\* services/embedding_service.py search_hybrid: the ids of the result; weights
\* in tenths
search_hybrid(vector_ranking, fts_ranking, top_k, vector_weight, fts_weight) ==
  LET vector_results == search_similar(vector_ranking, top_k * 2)
      fts_results == search_fulltext(fts_ranking, top_k * 2)
      fts_only == SelectSeq(fts_results, LAMBDA id : PositionIn(vector_results, id) = 0)
      merged == vector_results \o fts_only
      rrf(weight, rank_pos) ==
        IF rank_pos = 0 THEN 0 ELSE weight * (RrfScale \div (RRF_K + rank_pos))
      score == [id \in { merged[i] : i \in DOMAIN merged } |->
                  rrf(vector_weight, PositionIn(vector_results, id))
                    + rrf(fts_weight, PositionIn(fts_results, id))]
  IN Take(sorted_by_score(merged, score), top_k)

\* ------------------------------------------------------------------ skills

\* services/skills_loader.py load_skills: files are the parsed SKILL.md files
\* in the order of the two loops (directories lowest precedence first, the
\* files of a directory sorted by path); a file replaces the skill held under
\* its name unless the held one has a strictly higher priority
RECURSIVE load_skills(_)
load_skills(files) ==
  IF files = << >> THEN << >>
  ELSE LET all_skills == load_skills(SubSeq(files, 1, Len(files) - 1))
           skill == files[Len(files)]
       IN IF skill.name \in DOMAIN all_skills
             /\ all_skills[skill.name].priority > skill.priority
            THEN all_skills
            ELSE Put(all_skills, skill.name, skill)

\* ------------------------------------------------------------------ chat

\* services/chat_service.py MAX_HISTORY_TURNS
MAX_HISTORY_TURNS == 10

\* conversation_history[-(n):] of Python: the last n elements
LastOf(seq, n) == IF Len(seq) <= n THEN seq ELSE SubSeq(seq, Len(seq) - n + 1, Len(seq))

\* services/chat_service.py chat_with_project, the history it returns for the
\* user message and the answer of turn number turn
updated_history(conversation_history, turn) ==
  IF ~is_ai_configured THEN conversation_history
  ELSE LET trimmed_history == LastOf(conversation_history, MAX_HISTORY_TURNS * 2)
       IN trimmed_history \o << [role |-> "user", turn |-> turn],
                                [role |-> "assistant", turn |-> turn] >>

\* one turn of the chat mode (fsm_states.py ChatMode): chat_with_project is
\* called with the chat_history kept in the FSM data and the history it
\* returns is kept in its place
chat_with_project(tg) ==
  LET conversation_history == fsm[tg].chat_history
      turn == IF conversation_history = << >> THEN 1
              ELSE conversation_history[Len(conversation_history)].turn + 1
  IN /\ turn <= MaxTurns
     /\ ai_calls' = IF is_ai_configured THEN ai_calls + 1 ELSE ai_calls
     /\ fsm' = [fsm EXCEPT ![tg] =
                  [@ EXCEPT !.state = "chatting",
                            !.chat_history = updated_history(conversation_history, turn)]]
     /\ last' = [op |-> "chat_with_project", tg |-> tg, turn |-> turn]
     /\ UNCHANGED << users, projects, project_roles, stages, change_logs, next_id,
                     in_flight, content_tables, cache, delivered, now, supervisor >>

\* ------------------------------------------------------------------ context middleware

\* adapters/telegram/middleware.py RoleMiddleware: the ttl of its cache
\* entries (600 s), in minutes
CONTEXT_CACHE_TTL == 10

\* db/repositories.py get_project_with_stages
get_project_with_stages(project_id) ==
  IF project_id \in DOMAIN projects THEN project_id ELSE None

\* db/repositories.py get_user_by_id
get_user_by_id(user_id) == IF user_id \in DOMAIN users THEN user_id ELSE None

\* what a pg_cache_get of key returned, with the row of the key as it was in
\* the table at that moment (expires_at None when there was no row)
cache_read(key) ==
  [key |-> key, value |-> pg_cache_get(key), at |-> now,
   expires_at |-> IF key \in DOMAIN cache THEN cache[key].expires_at ELSE None]

\* adapters/telegram/middleware.py RoleMiddleware.__call__ for an event of
\* user tg in chat: the user and, in a group chat, the project are taken from
\* the cache on a hit and from the repository on a miss, and a found one is
\* cached and committed; project is what the handler receives
role_middleware(tg, chat) ==
  LET cache_key == << "user:tg", tg >>
      cached_user_id == pg_cache_get(cache_key)
      user == IF cached_user_id # None THEN get_user_by_id(cached_user_id)
              ELSE get_user_by_telegram_id(tg)
      user_cached == cached_user_id = None /\ user # None
      proj_cache_key == << "project:chat", chat >>
      cached_proj_id == pg_cache_get(proj_cache_key)
      project == IF chat >= 0 THEN None
                 ELSE IF cached_proj_id # None THEN get_project_with_stages(cached_proj_id)
                 ELSE get_project_by_telegram_chat_id(chat)
      project_cached == chat < 0 /\ cached_proj_id = None /\ project # None
      after_user == IF user_cached THEN pg_cache_set(cache_key, user, CONTEXT_CACHE_TTL)
                    ELSE cache
  IN /\ cache' = IF project_cached
                   THEN Put(after_user, proj_cache_key,
                            [value |-> project, expires_at |-> now + CONTEXT_CACHE_TTL])
                   ELSE after_user
     /\ last' = [op |-> "RoleMiddleware", tg |-> tg, chat |-> chat, user |-> user,
                 project |-> project,
                 reads |-> {cache_read(cache_key)} \cup
                           (IF chat < 0 THEN {cache_read(proj_cache_key)} ELSE {})]
     /\ UNCHANGED << users, projects, project_roles, stages, change_logs, next_id, fsm,
                     in_flight, content_tables, ai_calls, delivered, now, supervisor >>

\* core/scheduler.py _cache_maintenance with services/pg_cache.py
\* pg_cache_cleanup and the SQL function cache_cleanup
cache_maintenance ==
  /\ cache' = Drop(cache, { k \in DOMAIN cache : cache[k].expires_at < now })
  /\ last' = [op |-> "cache_maintenance"]
  /\ UNCHANGED << users, projects, project_roles, stages, change_logs, next_id, fsm,
                  in_flight, content_tables, ai_calls, delivered, now, supervisor >>

\* ------------------------------------------------------------------ deletion

\* adapters/telegram/handlers.py deleteproject_confirm ("delprj_yes:<id>")
deleteproject_confirm(tg, project_id) ==
  /\ IF project_id \notin DOMAIN projects
       THEN /\ UNCHANGED << projects, project_roles, stages, change_logs, content_tables >>
            /\ last' = [op |-> "deleteproject_confirm", tg |-> tg,
                        project_id |-> project_id, result |-> "not_found"]
       ELSE /\ change_logs' = { l \in change_logs : l.project_id # project_id }
            /\ stages' = Drop(stages, StagesOf(project_id))
            /\ project_roles' = { r \in project_roles : r.project_id # project_id }
            /\ budget_items' = Drop(budget_items,
                   { b \in DOMAIN budget_items : budget_items[b].project_id = project_id })
            /\ messages' = { m \in messages : m.project_id # project_id }
            /\ embeddings' = { e \in embeddings : e.project_id # project_id }
            /\ projects' = Drop(projects, {project_id})
            /\ last' = [op |-> "deleteproject_confirm", tg |-> tg,
                        project_id |-> project_id, result |-> "deleted"]
  /\ UNCHANGED << service_state, users, next_id, fsm, in_flight >>

\* ------------------------------------------------------------------ specifications

\* the stage ids a callback can name: the existing stages with one of the orders
StagesWithOrder(orders) == { s \in DOMAIN stages : stages[s].order \in orders }

Register == \E tg \in TgUsers : handle_start(tg)

CreateProject(tenant_set, group_chats, item_choices) ==
  \E tg \in TgUsers, t \in tenant_set, items \in item_choices :
     \E c \in {tg} \cup group_chats : confirm_project(tg, t, c, items)

CmdLaunch(tenant_set) == \E tg \in TgUsers, t \in tenant_set : cmd_launch(tg, t)

ConfirmLaunch == \E tg \in TgUsers : confirm_launch(tg)

StageComplete(callers, orders) ==
  \E tg \in callers, s \in StagesWithOrder(orders) : on_stage_complete(tg, s)

StageStatusChange(callers, orders) ==
  \E tg \in callers, st \in StageStatus, s \in StagesWithOrder(orders) :
     on_stage_status_change(tg, st, s)

CheckpointAction(callers, orders) ==
  \E tg \in callers, a \in {"approve", "reject"}, s \in StagesWithOrder(orders) :
     on_checkpoint_action(tg, a, s)

\* The stage lifecycle: one tenant's bot in private chats.  on_stage_complete and
\* on_stage_status_change never read the caller, so one caller presses their
\* buttons; every user presses the checkpoint buttons.
FirstTenant == {CHOOSE t \in Tenants : \A u \in Tenants : t <= u}
FirstTgUser == {CHOOSE t \in TgUsers : \A u \in TgUsers : t <= u}

NextStage ==
  \/ Register
  \/ CreateProject(FirstTenant, {}, ItemChoices)
  \/ CmdLaunch(FirstTenant)
  \/ ConfirmLaunch
  \/ StageComplete(FirstTgUser, ActedOrders)
  \/ StageStatusChange(FirstTgUser, ActedOrders)
  \/ CheckpointAction(TgUsers, ActedOrders)

SpecStage == Init /\ [][NextStage]_vars

CmdInvite == \E tg \in TgUsers : cmd_invite(tg)

ChooseRole == \E tg \in TgUsers, r \in RoleCallbacks : choose_role(tg, r)

ProcessContact == \E tg \in TgUsers, f \in TgUsers \cup {None} : process_contact(tg, f)

ConfirmInvite == \E tg \in TgUsers : confirm_invite(tg)

CancelInvite == \E tg \in TgUsers : cancel_invite(tg)

RemoveTeamMember ==
  \E tg \in TgUsers, p \in DOMAIN projects, u \in DOMAIN users :
     remove_team_member(tg, p, u)

\* The team: the bots of every tenant in private chats, the invitation
\* flow, member removal and the project listing of /launch.
NextTeam ==
  \/ Register
  \/ CreateProject(Tenants, {}, {<< >>})
  \/ CmdLaunch(Tenants)
  \/ CmdInvite
  \/ ChooseRole
  \/ ProcessContact
  \/ ConfirmInvite
  \/ CancelInvite
  \/ RemoveTeamMember

SpecTeam == Init /\ [][NextTeam]_vars

ChangePaymentStatus(callers, orders) ==
  \E tg \in callers, st \in PaymentStatus, s \in StagesWithOrder(orders) :
     change_payment_status(tg, st, s)

UpdateStagePaymentStatus == \E h \in in_flight : update_stage_payment_status(h)

DeleteProject == \E tg \in TgUsers, p \in 1..MaxProjects : deleteproject_confirm(tg, p)

\* The payment status of the first stage and the change log: projects created in
\* private and group chats, payment callbacks of every user, handled
\* concurrently, and project deletion.
NextPay ==
  \/ Register
  \/ CreateProject(FirstTenant, GroupChats, {<< >>})
  \/ ChangePaymentStatus(TgUsers, {1})
  \/ UpdateStagePaymentStatus
  \/ DeleteProject

SpecPay == Init /\ [][NextPay]_vars

\* ------------------------------------------------------------------ stage claims

InProgressMain(project_id) ==
  { s \in StagesOf(project_id) :
      stages[s].status = "in_progress" /\ ~stages[s].is_parallel }

\* C1: for every project, at most one non-parallel stage has status in_progress
\* after any sequence of launch, completion, status-change and checkpoint operations.
C1_AtMostOneMainStageInProgress ==
  \A p \in DOMAIN projects : Cardinality(InProgressMain(p)) <= 1

\* the event of the step marks the stage as completed
MarksCompleted(ev) ==
  \/ ev.op = "stage_complete"
  \/ ev.op = "stage_status_change" /\ ev.new_status = "completed"

\* the stages of the same project other than the given one whose status the step changes
OtherStagesChanged(stage_id) ==
  { t \in StagesOf(stages[stage_id].project_id) \ {stage_id} :
      stages'[t].status # stages[t].status }

\* C5: after a checkpoint stage was marked completed, no other stage of the project
\* changes status until the owner approves or rejects that checkpoint (checked on
\* the completing step and on the step that follows it).
C5_CheckpointHaltsUntilOwnerDecides ==
  [][ /\ (MarksCompleted(last') /\ stages[last'.stage_id].is_checkpoint
            => OtherStagesChanged(last'.stage_id) = {})
      /\ (MarksCompleted(last) /\ stages[last.stage_id].is_checkpoint
          /\ OtherStagesChanged(last.stage_id) # {}
            => /\ last'.op = "checkpoint"
               /\ last'.stage_id = last.stage_id
               /\ last'.result = "done") ]_vars

\* the non-parallel stage with the smallest order above the stage's order, if any
NextMainStages(stage_id) ==
  { n \in StagesOf(stages[stage_id].project_id) :
      /\ ~stages[n].is_parallel
      /\ stages[n].order > stages[stage_id].order
      /\ \A t \in StagesOf(stages[stage_id].project_id) :
           ~stages[t].is_parallel /\ stages[t].order > stages[stage_id].order
             => stages[n].order <= stages[t].order }

\* the step is the owner's approval of a checkpoint stage that is completed
OwnerApproves(stage_id) ==
  /\ last'.op = "checkpoint"
  /\ last'.action = "approve"
  /\ last'.result = "done"
  /\ last'.stage_id = stage_id
  /\ stages[stage_id].is_checkpoint
  /\ stages[stage_id].status = "completed"

\* C6: when the owner approves a completed checkpoint, the stage moved to
\* in_progress is the non-parallel stage with the smallest order above the
\* checkpoint's, and no parallel stage changes status.
C6_ApprovalAdvancesNextMainStage ==
  [][ \A s \in DOMAIN stages :
        OwnerApproves(s) =>
          /\ \A t \in DOMAIN stages :
               stages'[t].status # stages[t].status => t \in NextMainStages(s)
          /\ \A n \in NextMainStages(s) : stages'[n].status = "in_progress" ]_vars

\* the stage that follows by order: no stage of the project lies strictly between
NextByOrder(stage_id) ==
  { n \in StagesOf(stages[stage_id].project_id) :
      /\ stages[n].order > stages[stage_id].order
      /\ ~ \E t \in StagesOf(stages[stage_id].project_id) :
            stages[t].order > stages[stage_id].order /\ stages[t].order < stages[n].order }

\* C7: when a stage that is not a checkpoint is marked completed, the same
\* operation leaves the stage completed and the next stage by order in_progress.
C7_CompletionAdvancesNextStage ==
  [][ MarksCompleted(last') /\ ~stages[last'.stage_id].is_checkpoint
        => /\ stages'[last'.stage_id].status = "completed"
           /\ \A n \in NextByOrder(last'.stage_id) :
                stages'[n].status = "in_progress" ]_vars

\* C7 witness: stage 1 (not a checkpoint) was just completed and its successor
\* is in progress
C7_Witness ==
  /\ MarksCompleted(last)
  /\ ~stages[last.stage_id].is_checkpoint
  /\ stages[last.stage_id].status = "completed"
  /\ NextByOrder(last.stage_id) # {}
  /\ \A n \in NextByOrder(last.stage_id) : stages[n].status = "in_progress"

\* ------------------------------------------------------------------ team claims

OwnerRows(project_id) ==
  { r \in project_roles : r.project_id = project_id /\ r.role = "owner" }

\* C2: every project has exactly one ProjectRole row with role owner, after any
\* sequence of project creations, invitations and member removals.
C2_ExactlyOneOwner ==
  \A p \in DOMAIN projects : Cardinality(OwnerRows(p)) = 1

\* C4: the project listing a user gets through the bot of tenant T contains no
\* project whose tenant_id differs from T.
C4_ListingStaysInTenant ==
  last.op = "cmd_launch" =>
    \A p \in last.listed : projects[p].tenant_id = last.tenant_id

\* ------------------------------------------------------------------ permission claim

\* the caller's roles in the project grant the permission
Permitted(tg, project_id, permission) ==
  /\ get_user_by_telegram_id(tg) # None
  /\ has_permission(
       get_user_roles_in_project(get_user_by_telegram_id(tg), project_id), permission)

\* C3: a stage completion or status change by a caller without update_status,
\* and a launch by a caller without launch_project, changes no project data.
C3_DeniedCallerChangesNothing ==
  [][ /\ (last'.op \in {"stage_complete", "stage_status_change"}
            => \/ Permitted(last'.tg, stages[last'.stage_id].project_id, "update_status")
               \/ UNCHANGED << projects, project_roles, stages, change_logs >>)
      /\ (last'.op = "confirm_launch"
            => \/ Permitted(last'.tg, last'.project_id, "launch_project")
               \/ UNCHANGED << projects, project_roles, stages, change_logs >>) ]_vars

\* ------------------------------------------------------------------ payment claims

\* the stages that exist before and after the step and whose payment_status it changes
PaymentChanged ==
  { s \in DOMAIN stages \cap DOMAIN stages' :
      stages'[s].payment_status # stages[s].payment_status }

\* C8: every change of a stage's payment_status is one of recorded->in_progress,
\* in_progress->verified|recorded, verified->paid|in_progress, paid->closed|verified;
\* closed is never left.
C8_OnlyAllowedPaymentTransitions ==
  [][ \A s \in PaymentChanged :
        << stages[s].payment_status, stages'[s].payment_status >> \in
          { << "recorded", "in_progress" >>,
            << "in_progress", "verified" >>, << "in_progress", "recorded" >>,
            << "verified", "paid" >>, << "verified", "in_progress" >>,
            << "paid", "closed" >>, << "paid", "verified" >> } ]_vars

\* C9: the step that changes a stage's payment_status from a to b adds a ChangeLog
\* row (stage, that stage, payment_status, old_value a, new_value b).
C9_PaymentChangeIsLogged ==
  [][ \A s \in PaymentChanged :
        \E l \in change_logs' \ change_logs :
           /\ l.entity_type = "stage"
           /\ l.entity_id = s
           /\ l.field_name = "payment_status"
           /\ l.old_value = stages[s].payment_status
           /\ l.new_value = stages'[s].payment_status ]_vars

\* C10: the change log is append-only: every ChangeLog row that exists before a
\* step exists unchanged after it, project deletion included.
C10_ChangeLogAppendOnly ==
  [][ change_logs \subseteq change_logs' ]_vars

\* C12: the role the invitation flow writes at confirmation is one of the
\* assignable roles, which exclude owner.
C12_InviteNeverAssignsOwner ==
  (last.op = "confirm_invite" /\ last.result = "added") =>
     (last.role \in ASSIGNABLE_ROLES /\ last.role # "owner")

\* ------------------------------------------------------------------ budget claims

StartAddExpense == \E tg \in TgUsers, p \in DOMAIN projects : start_add_expense(tg, p)

SaveExpense == \E tg \in TgUsers : save_expense(tg)

ConfirmItem ==
  \E tg \in TgUsers, b \in 1..MaxBudgetItems, o \in create_change_log_call(confirm_item_kwargs) :
     confirm_item(tg, b, o)

DeleteItem ==
  \E tg \in TgUsers, b \in 1..MaxBudgetItems, o \in create_change_log_call(delete_item_kwargs) :
     delete_item(tg, b, o)

\* The budget: expenses added through the wizard, confirmed and deleted, and the
\* deletion of the whole project.
NextBudget ==
  \/ Register
  \/ CreateProject(FirstTenant, {}, {<< >>})
  \/ StartAddExpense
  \/ SaveExpense
  \/ ConfirmItem
  \/ DeleteItem
  \/ DeleteProject

SpecBudget == Init /\ [][NextBudget]_vars

\* the budget items the step creates, changes or deletes
BudgetItemsTouched ==
  { b \in DOMAIN budget_items \cup DOMAIN budget_items' :
      \/ b \notin DOMAIN budget_items
      \/ b \notin DOMAIN budget_items'
      \/ budget_items'[b] # budget_items[b] }

Addressing(addressed) ==
  {[reply_to |-> None, mention |-> None, text_mention |-> None]}
    \cup {[reply_to |-> b, mention |-> None, text_mention |-> None] : b \in addressed}
    \cup {[reply_to |-> None, mention |-> b, text_mention |-> None] : b \in addressed}
    \cup {[reply_to |-> None, mention |-> None, text_mention |-> b] : b \in addressed}

\* the content of a message: a text, a voice recording, or a photo with or
\* without a caption (a caption is no command)
Contents(kinds, texts) ==
  {[kind |-> "text", text |-> t, caption |-> ""] : t \in IF "text" \in kinds THEN texts ELSE {}}
    \cup {[kind |-> "voice", text |-> "", caption |-> ""] : k \in kinds \cap {"voice"}}
    \cup {[kind |-> "photo", text |-> "", caption |-> c] :
            c \in IF "photo" \in kinds
                    THEN {""} \cup {t \in texts : ~starts_with_slash(t)} ELSE {}}

\* the messages explored: sent by a user in the private chat or in a group
\* chat, to the bot of a tenant; a mention entity needs a text or a caption
MessageShapes(bot_set, senders, group_chats, ids, kinds, texts, addressed) ==
  UNION {
    { [bot |-> b, chat |-> c[2], from_tg |-> c[1], message_id |-> i,
       kind |-> k.kind, text |-> k.text, caption |-> k.caption,
       reply_to |-> a.reply_to, mention |-> a.mention, text_mention |-> a.text_mention] :
        b \in bot_set, i \in ids,
        a \in { x \in Addressing(addressed) :
                  x.mention # None => (k.text # "" \/ k.caption # "") },
        c \in { << f, f >> : f \in senders } \cup (senders \X group_chats) } :
    k \in Contents(kinds, texts) }

OnMessage(shapes) == \E m \in shapes, media \in BOOLEAN : on_message(m, media)

Tick(steps, limit) == \E step \in steps : tick(step, limit)

FirstMessageId == {CHOOSE i \in 1..MaxMessageId : \A j \in 1..MaxMessageId : i <= j}

GateMessages ==
  MessageShapes(Tenants, FirstTgUser, GroupChats, FirstMessageId,
                {"text", "voice", "photo"}, Texts, Tenants)

\* The mention gate: messages of every shape to the bots of every tenant, in
\* a private chat and in a group chat.
NextGate == OnMessage(GateMessages)

SpecGate == Init /\ [][NextGate]_vars

\* C15: in a group chat served by any tenant's bot, a message passes the
\* mention gate if and only if it is a command, a reply to a message of the bot
\* that received it, a mention of that bot's @username, a text-mention of that
\* bot's user id, or its text or caption matches a configured pattern.
C15_GatePassesIffDirectedAtReceivingBot ==
  (last.op = "message" /\ chat_type(last.message.chat) = "group") =>
     (last.passed <=>
        \/ starts_with_slash(last.message.text)
        \/ last.message.reply_to = last.message.bot
        \/ last.message.mention = last.message.bot
        \/ last.message.text_mention = last.message.bot
        \/ matches_custom_pattern(last.message.text)
        \/ matches_custom_pattern(last.message.caption))

IngestMessages ==
  MessageShapes(FirstTenant, FirstTgUser, GroupChats, FirstMessageId,
                {"text", "voice", "photo"}, Texts \ {"/ask budget", "bot budget"},
                FirstTenant)

\* Ingest: registered users, a project linked to a group chat, and text, voice
\* and photo messages to the first tenant's bot, each Telegram message
\* delivered any number of times.
NextIngest ==
  \/ Register
  \/ CreateProject(FirstTenant, GroupChats, {<< >>})
  \/ OnMessage(IngestMessages)
  \/ DeleteProject

SpecIngest == Init /\ [][NextIngest]_vars

\* the message of the step is a group-chat text of three characters or more
\* that is no command and is not addressed to any bot, in a chat linked to a
\* project
UndirectedGroupText(m) ==
  /\ m.kind = "text"
  /\ chat_type(m.chat) = "group"
  /\ ~starts_with_slash(m.text)
  /\ ~shorter_than_3(m.text)
  /\ m.reply_to = None /\ m.mention = None /\ m.text_mention = None
  /\ ~matches_custom_pattern(m.text)
  /\ get_project_by_telegram_chat_id(m.chat) # None

\* C13: a group-chat text that is not directed at the bot, in a chat linked to
\* a project, gets no reply, and is stored as a Message row and indexed with an
\* Embedding row that carry the project's id.
C13_UndirectedGroupTextStoredSilently ==
  [][ (last'.op = "message" /\ UndirectedGroupText(last'.message)) =>
        /\ ~last'.replied
        /\ \E row \in messages' \ messages :
              /\ row.project_id = get_project_by_telegram_chat_id(last'.message.chat)
              /\ row.platform_message_id = last'.message.message_id
        /\ \E e \in embeddings' \ embeddings :
              e.project_id = get_project_by_telegram_chat_id(last'.message.chat) ]_vars

\* the rows stored for a Telegram message
StoredFor(m) ==
  { row \in messages :
      row.platform_chat_id = m.chat /\ row.platform_message_id = m.message_id }

\* C14: processing a message whose (platform, platform_message_id) was already
\* processed creates no additional Message row and no additional Embedding row.
C14_IngestIsIdempotent ==
  [][ (last'.op = "message" /\ StoredFor(last'.message) # {}) =>
        (messages' = messages /\ embeddings' = embeddings) ]_vars

\* C16: every message that is no command and that the bot processes (text,
\* voice, image) results in a stored Message row, however short its text.
C16_EveryProcessedMessageIsStored ==
  [][ (last'.op = "message" /\ last'.passed /\ last'.handler # "cmd_ask") =>
        \E row \in messages' \ messages :
           /\ row.platform_chat_id = last'.message.chat
           /\ row.platform_message_id = last'.message.message_id ]_vars

\* ------------------------------------------------------------------ /ask claims

AskMessages ==
  MessageShapes(FirstTenant, TgUsers, GroupChats, FirstMessageId, {"text"},
                {"/ask budget"}, {})

\* one minute
Minute == {CHOOSE step \in 1..MaxNow : \A other \in 1..MaxNow : step <= other}

\* /ask: registered users with a project, in the private chat and in the
\* project's group chat, asking the same question while time passes.
NextAsk ==
  \/ Register
  \/ CreateProject(FirstTenant, GroupChats, {<< >>})
  \/ OnMessage(AskMessages)
  \/ Tick(Minute, MaxNow)

SpecAsk == Init /\ [][NextAsk]_vars

\* C17: when the same /ask question is answered for the same project twice
\* within 5 minutes, the second answer comes from the cache and the chat
\* provider is not called again.
C17_SecondAskWithinTtlUsesCache ==
  [][ ( /\ last.op = "message" /\ last.handler = "cmd_ask"
        /\ last.answer_from # "none"
        /\ now' = now
        /\ last'.op = "message" /\ last'.handler = "cmd_ask"
        /\ last'.project_id = last.project_id
        /\ last'.at - last.at < ASK_CACHE_TTL )
      => (last'.answer_from = "cache" /\ ai_calls' = ai_calls) ]_vars

\* ------------------------------------------------------------------ notification claims

\* the last handler marked a checkpoint stage as completed
CheckpointMarkedCompleted ==
  /\ \/ last.op = "stage_complete"
     \/ (last.op = "stage_status_change" /\ last.new_status = "completed")
  /\ last.stage_id \in DOMAIN stages
  /\ stages[last.stage_id].is_checkpoint

\* C20: whenever a checkpoint stage is marked completed, the owner receives a
\* checkpoint_reached notification with the approve / reject buttons (an owner
\* who pressed the button himself sees them in the edited message).
C20_OwnerNotifiedOfCheckpoint ==
  CheckpointMarkedCompleted =>
     \A r \in OwnerRows(stages[last.stage_id].project_id) :
        \/ r.user_id = get_user_by_telegram_id(last.tg)
        \/ \E d \in delivered :
              /\ d.notification_type = "checkpoint_reached"
              /\ d.stage_id = last.stage_id
              /\ d.recipient = r.user_id

StartExactDatesMode(callers, orders) ==
  \E tg \in callers, s \in StagesWithOrder(orders) : start_exact_dates_mode(tg, s)

ProcessStartDate(callers, dates) ==
  \E tg \in callers, dt \in dates : process_start_date(tg, dt)

ProcessEndDate(callers, dates) ==
  \E tg \in callers, dt \in dates : process_end_date(tg, dt)

CheckDeadlines ==
  \E db_fail \in DOMAIN stages \cup {None} :
    \E before \in SUBSET (get_stages_due_soon(now + Hour, 1) \ {db_fail}) :
      \E send_fail \in {{}} \cup {{u} : u \in DOMAIN users} :
         check_deadlines(db_fail, before, send_fail)

\* the stages the scheduler claims act on
ScheduledOrders == {1, 2}

\* The deadline job: a project whose first stages get dates and are put in
\* progress, and the hourly run of _check_deadlines.
NextScheduler ==
  \/ Register
  \/ CreateProject(FirstTenant, {}, {<< >>})
  \/ StageStatusChange(FirstTgUser, ScheduledOrders)
  \/ StartExactDatesMode(FirstTgUser, ScheduledOrders)
  \/ ProcessStartDate(FirstTgUser, {Yesterday})
  \/ ProcessEndDate(FirstTgUser, Dates)
  \/ CheckDeadlines

SpecScheduler == Init /\ [][NextScheduler]_vars

\* C18: over any run of the scheduler each recipient receives at most one
\* delivery per notification type, stage and day.
C18_OneDeliveryPerTypeStageDay ==
  \A d1, d2 \in delivered :
     ( /\ d1.notification_type = d2.notification_type
       /\ d1.stage_id = d2.stage_id
       /\ d1.recipient = d2.recipient
       /\ d1.at \div Day = d2.at \div Day ) => d1 = d2

\* C19: within one run of a scheduler job, a database or network call that
\* fails for one stage is logged and the run continues with the remaining
\* stages: every other due stage is still served.
C19_RunContinuesAfterFailure ==
  (last.op = "check_deadlines" /\ last.failed # None) =>
     last.served = last.due \ {last.failed}

UpdateStageResponsible(orders) ==
  \E s \in StagesWithOrder(orders), u \in DOMAIN users :
     update_stage_responsible_user_id(s, u)

CheckStatusUpdates ==
  \E db_fail \in DOMAIN stages \cup {None} :
    \E before \in SUBSET (get_stages_needing_status_update(now, IdleDays) \ {db_fail}) :
      \E send_fail \in {{}} \cup {{u} : u \in DOMAIN users} :
         check_status_updates(db_fail, before, send_fail)

\* the stage the status-update claims act on
PromptedOrders == {1}

\* The status-update job: a project whose first stage gets a responsible user
\* and changes status, three days passing while the scheduler is not
\* running, and the six-hourly run of _check_status_updates once it is.
NextStatus ==
  \/ Register
  \/ CreateProject(FirstTenant, {}, {<< >>})
  \/ StageStatusChange(FirstTgUser, PromptedOrders)
  \/ UpdateStageResponsible(PromptedOrders)
  \/ Tick({IdleDays * Day}, MaxStatusClock)
  \/ CheckStatusUpdates

SpecStatus == Init /\ [][NextStatus]_vars

\* the status_update_request deliveries made by the step
NewStatusRequests ==
  { d \in delivered' \ delivered : d.notification_type = "status_update_request" }

\* C21: the status-update job emits a status_update_request for a stage only
\* if the stage is in_progress, has a responsible user and has had no activity
\* during the last 3 days (its creation being the earliest activity).
C21_StatusRequestOnlyForIdleStage ==
  [][ \A d \in NewStatusRequests :
        /\ stages[d.stage_id].status = "in_progress"
        /\ stages[d.stage_id].responsible_user_id # None
        /\ stages[d.stage_id].created_at <= d.at - IdleDays * Day ]_vars

StartDurationMode(callers, orders) ==
  \E tg \in callers, s \in StagesWithOrder(orders) : start_duration_mode(tg, s)

\* the durations entered, in days (the midnight numbered 0 stands for no date)
Durations == {2, 3}

ProcessDuration(callers) ==
  \E tg \in callers, days \in Durations : process_duration(tg, days)

\* the stage the date claims act on
DatedOrders == {1}

\* The date wizard of one stage: both modes, entered and abandoned in any
\* order, and the deletion of the project.
NextDates ==
  \/ Register
  \/ CreateProject(FirstTenant, {}, {<< >>})
  \/ StartExactDatesMode(TgUsers, DatedOrders)
  \/ StartDurationMode(TgUsers, DatedOrders)
  \/ ProcessStartDate(TgUsers, Dates)
  \/ ProcessEndDate(TgUsers, Dates)
  \/ ProcessDuration(TgUsers)
  \/ DeleteProject

SpecDates == Init /\ [][NextDates]_vars

\* C22: for every stage, whenever both dates are set, end_date > start_date.
C22_EndDateAfterStartDate ==
  \A s \in DOMAIN stages :
     (stages[s].start_date # None /\ stages[s].end_date # None)
        => stages[s].end_date > stages[s].start_date

\* the first main stage of a project: non-parallel, lowest order
FirstMainStage(project_id) ==
  LET main == { s \in StagesOf(project_id) : ~stages[s].is_parallel }
  IN IF main = {} THEN None
     ELSE CHOOSE s \in main : \A t \in main : stages[s].order <= stages[t].order

\* the stages whose status the step changes
StatusChanged == { s \in DOMAIN stages \cap DOMAIN stages' : stages'[s].status # stages[s].status }

\* C23: a launch changes the status of exactly one stage, the project's first
\* main stage, which goes from planned to in_progress.
C23_LaunchStartsFirstMainStage ==
  [][ (last'.op = "confirm_launch" /\ last'.project_id \in DOMAIN projects) =>
         /\ StatusChanged = {FirstMainStage(last'.project_id)}
         /\ stages[FirstMainStage(last'.project_id)].status = "planned"
         /\ stages'[FirstMainStage(last'.project_id)].status = "in_progress" ]_vars

\* the project ids a callback or deep link can name
LinkedProjectIds == 1..MaxLinkedProjects

CreateProjectUpto(tenant_set, group_chats, item_choices, max_projects) ==
  \E tg \in TgUsers, t \in tenant_set, items \in item_choices :
     \E c \in {tg} \cup group_chats :
        confirm_project_upto(tg, t, c, items, max_projects, "none")

DeleteProjectOf(ids) == \E tg \in TgUsers, q \in ids : deleteproject_confirm(tg, q)

StartGroupDeeplink(group_chats, ids) ==
  \E tg \in TgUsers, c \in group_chats, q \in ids : handle_startgroup_deeplink(tg, c, q)

CmdLink(group_chats) == \E tg \in TgUsers, c \in group_chats : cmd_link(tg, c)

LinkProjectCallback(group_chats, ids) ==
  \E tg \in TgUsers, c \in group_chats, q \in ids : link_project_callback(tg, c, q)

\* Linking: two projects created in private or in the group chat, and every
\* way of linking the group chat to one of them.
NextLink ==
  \/ Register
  \/ CreateProjectUpto(FirstTenant, GroupChats, {<< >>}, MaxLinkedProjects)
  \/ StartGroupDeeplink(GroupChats, LinkedProjectIds)
  \/ CmdLink(GroupChats)
  \/ LinkProjectCallback(GroupChats, LinkedProjectIds)
  \/ DeleteProjectOf(LinkedProjectIds)

SpecLink == Init /\ [][NextLink]_vars

\* the links held: which project holds which group chat
Links ==
  { << q, projects[q].telegram_chat_id >> :
      q \in { x \in DOMAIN projects : projects[x].telegram_chat_id # None } }

\* the steps that try to link a chat: the three group handlers and a project
\* creation inside a group
LinkAttempt(chat) ==
  \/ /\ last'.op \in {"handle_startgroup_deeplink", "cmd_link", "link_project_callback"}
     /\ last'.chat = chat
     /\ last' # last
  \/ /\ last'.op = "confirm_project"
     /\ DOMAIN projects' # DOMAIN projects
     /\ chat \in GroupChats

\* C24: no two projects hold the same group chat id, and an attempt to link a
\* chat that a project already holds changes no project's link.
C24_GroupChatLinkedOnce ==
  /\ [](\A q, r \in DOMAIN projects :
          (projects[q].telegram_chat_id # None /\ q # r)
             => projects[q].telegram_chat_id # projects[r].telegram_chat_id)
  /\ [][ \A c \in GroupChats :
           (LinkAttempt(c) /\ get_project_by_telegram_chat_id(c) # None)
              => Links' = Links ]_vars

\* a picker callback naming the second project in a chat the first one holds
C24_Witness ==
  /\ last.op = "link_project_callback"
  /\ last.result = "IntegrityError"
  /\ \E q \in DOMAIN projects : projects[q].telegram_chat_id = last.chat /\ q # last.project_id

CmdReport == \E tg \in TgUsers : cmd_report(tg)

ReportSelectProject(ids) == \E tg \in TgUsers, q \in ids : report_select_project(tg, q)

\* /ask sent in the private chat
PrivateAskMessages ==
  MessageShapes(FirstTenant, TgUsers, {}, FirstMessageId, {"text"}, {"/ask budget"}, {})

\* The project picker: users with up to two projects sending /report and /ask
\* in the private chat and pressing a project button.
NextPicker ==
  \/ Register
  \/ CreateProjectUpto(FirstTenant, {}, {<< >>}, MaxLinkedProjects)
  \/ CmdReport
  \/ OnMessage(PrivateAskMessages)
  \/ ReportSelectProject(LinkedProjectIds)

SpecPicker == Init /\ [][NextPicker]_vars

\* the command a step of the private chat received, "none" for any other step
CommandReceived ==
  IF last' = last THEN "none"
  ELSE IF last'.op = "cmd_report" THEN "report"
  ELSE IF last'.op = "message" /\ last'.handler = "cmd_ask" THEN "ask"
  ELSE "none"

\* the sender of the command of the step
CommandSender == IF last'.op = "cmd_report" THEN last'.tg ELSE last'.message.from_tg

\* C25: for a private-chat user with more than one project a command stores
\* its intent and opens the picker, and choosing a project in the picker
\* executes the command of the stored intent for the chosen project.
C25_PickerRunsStoredIntent ==
  [][ /\ ( /\ CommandReceived # "none"
           /\ Cardinality(get_user_projects(get_user_by_telegram_id(CommandSender))) > 1 )
         => /\ fsm'[CommandSender].state = "report_selecting_project"
            /\ fsm'[CommandSender].intent = CommandReceived
      /\ (last'.op = "report_select_project" /\ last' # last)
         => /\ last'.executed = fsm[last'.tg].intent
            /\ last'.project_id = last'.chosen ]_vars

\* the step of create_renovation_project that fails, if any
FailSteps == {"none"} \cup { CreationSteps[i] : i \in DOMAIN CreationSteps }

CreateProjectFailing(tenant_set, group_chats, item_choices, max_projects, fail_steps) ==
  \E tg \in TgUsers, t \in tenant_set, items \in item_choices, f \in fail_steps :
     \E c \in {tg} \cup group_chats : confirm_project_upto(tg, t, c, items, max_projects, f)

\* Project creation: two projects created in private or in the group chat with
\* none, one or two custom items, any step of the creation failing, and
\* project deletion.
NextCreate ==
  \/ Register
  \/ CreateProjectFailing(FirstTenant, GroupChats, CreationItemChoices, MaxLinkedProjects, FailSteps)
  \/ DeleteProjectOf(LinkedProjectIds)

SpecCreate == Init /\ [][NextCreate]_vars

\* C26: project creation is all-or-nothing: if any step fails, no project, role
\* or stage row of the attempt is persisted.
C26_CreationIsAllOrNothing ==
  [][ (last'.op = "confirm_project" /\ last' # last /\ last'.result = "failed") =>
         /\ projects' = projects
         /\ project_roles' = project_roles
         /\ stages' = stages ]_vars

\* a creation that failed at its last step, the stages
C26_Witness ==
  /\ last.op = "confirm_project"
  /\ last.result = "failed"
  /\ last.fail_step = "stages"

\* C27: whatever custom items were selected at creation, no two stages of a
\* project have the same order value.
C27_StageOrdersUnique ==
  \A a, b \in DOMAIN stages :
     (a # b /\ stages[a].project_id = stages[b].project_id)
        => stages[a].order # stages[b].order

\* a project created with two custom items: ten parallel stages
C27_Witness ==
  \E q \in DOMAIN projects :
     Cardinality({ a \in StagesOf(q) : stages[a].is_parallel }) = 2 * CUSTOM_ITEM_SUBSTAGES

\* the Message rows that reference project q
MessagesOf(q) == { m \in messages : m.project_id = q }

\* C28: deleting a project deletes none of the messages that reference it:
\* each such Message row survives with its project reference set to null.
C28_MessagesSurviveProjectDeletion ==
  [][ (last'.op = "deleteproject_confirm" /\ last' # last /\ last'.result = "deleted") =>
        \A m \in MessagesOf(last'.project_id) :
           [m EXCEPT !.project_id = None] \in messages' ]_vars

CreateTenant == \E t \in Tenants : create_tenant_endpoint(t)

DeactivateTenant == \E t \in Tenants : deactivate_tenant(t)

CmdRemovebot == \E is_admin \in BOOLEAN, t \in Tenants : cmd_removebot(is_admin, t)

Start == \E env_token \in Tenants \cup {None}, me_fail \in SUBSET Tenants : start(env_token, me_fail)

Stop == stop

FeedUpdate == \E t \in Tenants : feed_update(t)

\* The adapter supervisor: tenants registered and removed while the process is
\* stopped or running, the start of the process with or without a configured
\* token and with any bot failing its identity call, updates arriving for the
\* bots polled, and the end of the process.
NextSupervisor ==
  \/ CreateTenant
  \/ DeactivateTenant
  \/ CmdRemovebot
  \/ Start
  \/ Stop
  \/ FeedUpdate

SpecSupervisor == Init /\ [][NextSupervisor]_vars

\* the step removed a tenant: /removebot or DELETE /tenants/{id} succeeded
TenantRemoved ==
  /\ last' # last
  /\ \/ last'.op = "cmd_removebot" /\ last'.result = "deactivated"
     \/ last'.op = "deactivate_tenant" /\ last'.result = 204

\* C29: a removal marks the tenant inactive and the running process stops
\* consuming updates for its bot without a restart: the tenant leaves the set
\* of bots polled, and no update is consumed for an inactive tenant.
C29_RemovedTenantStopsConsuming ==
  [][ /\ TenantRemoved =>
           /\ ~tenants'[last'.tenant_id].is_active
           /\ last'.tenant_id \notin polling'
      /\ (last'.op = "feed_update" /\ last' # last) =>
           tenants[last'.tenant_id].is_active ]_vars

\* C30: when identity resolution fails at startup for some tenant, that tenant
\* is skipped and every other tenant the start attempted (the active ones and
\* the one of the configured token) consumes updates afterwards.
C30_FailedTenantSkippedOthersStart ==
  [][ (last'.op = "start" /\ last' # last /\ last'.me_fail \cap last'.attempted # {}) =>
        /\ polling' \cap last'.me_fail = {}
        /\ last'.attempted \ last'.me_fail \subseteq polling' ]_vars

\* the embeddings of the project searched
EmbeddingIds == 1..MaxEmbeddings

\* the rankings an arm can produce: the sequences of distinct embeddings
Rankings ==
  { r \in UNION { [1..n -> EmbeddingIds] : n \in 0..MaxEmbeddings } :
      \A i, j \in DOMAIN r : i # j => r[i] # r[j] }

\* the weights of the two arms, in tenths: the defaults, and either arm off
WeightPairs == { << 6, 4 >>, << 6, 0 >>, << 0, 4 >> }

\* a query: what each arm finds for it, and the arguments of the search
InitSearch ==
  /\ InitTables
  /\ \E v \in Rankings, f \in Rankings, k \in 1..MaxTopK, w \in WeightPairs :
       last = [op |-> "query", vector_ranking |-> v, fts_ranking |-> f, top_k |-> k,
               vector_weight |-> w[1], fts_weight |-> w[2]]

\* the three searches run on the query
Search ==
  /\ last.op = "query"
  /\ last' = [last EXCEPT
       !.op = "search",
       !.vector_ranking = search_similar(last.vector_ranking, last.top_k),
       !.fts_ranking = search_fulltext(last.fts_ranking, last.top_k)]
              @@ [hybrid |-> search_hybrid(last.vector_ranking, last.fts_ranking,
                                           last.top_k, last.vector_weight,
                                           last.fts_weight)]
  /\ UNCHANGED << users, projects, project_roles, stages, change_logs, next_id, fsm,
                  in_flight, content_tables, service_state >>

NextSearch == Search

SpecSearch == InitSearch /\ [][NextSearch]_vars

\* C31: with the FTS weight 0 the hybrid search returns the results of the
\* pure vector search in the same order, and with the vector weight 0 those of
\* the pure full-text search.
C31_ZeroWeightIsPureSearch ==
  last.op = "search" =>
    /\ (last.fts_weight = 0 => last.hybrid = last.vector_ranking)
    /\ (last.vector_weight = 0 => last.hybrid = last.fts_ranking)

\* the skill directories in precedence order (built-in first), the skill
\* names and the priorities of the files
SkillDirs == 1..NumSkillDirs
SkillNames == {"budget", "stages"}
Priorities == 1..MaxPriority

\* a parsed SKILL.md file; path orders the files of one directory
SkillFiles == [dir : SkillDirs, path : 1..MaxSkillFiles, name : SkillNames,
               priority : Priorities]

\* what _get_skill_directories and _discover_skill_files can yield: files in
\* directory order, those of one directory by ascending path
SkillFileLists ==
  { fs \in UNION { [1..n -> SkillFiles] : n \in 0..MaxSkillFiles } :
      \A i, j \in DOMAIN fs :
         i < j => \/ fs[i].dir < fs[j].dir
                  \/ fs[i].dir = fs[j].dir /\ fs[i].path < fs[j].path }

InitSkills ==
  /\ InitTables
  /\ \E fs \in SkillFileLists : last = [op |-> "skill_files", files |-> fs]

LoadSkills ==
  /\ last.op = "skill_files"
  /\ last' = [op |-> "load_skills", files |-> last.files, skills |-> load_skills(last.files)]
  /\ UNCHANGED << users, projects, project_roles, stages, change_logs, next_id, fsm,
                  in_flight, content_tables, service_state >>

NextSkills == LoadSkills

SpecSkills == InitSkills /\ [][NextSkills]_vars

\* the files defining the skill name
DefinitionsOf(files, name) == { files[i] : i \in { j \in DOMAIN files : files[j].name = name } }

\* C32: the loaded skill of a name comes from the latest directory defining
\* it, whatever the priorities, and among the definitions of that directory
\* none has a higher priority than the loaded one.
C32_LaterDirectoryThenPriority ==
  last.op = "load_skills" =>
    \A name \in DOMAIN last.skills :
       LET loaded == last.skills[name]
           defs == DefinitionsOf(last.files, name)
       IN /\ \A d \in defs : d.dir <= loaded.dir
          /\ \A d \in defs : d.dir = loaded.dir => d.priority <= loaded.priority

ChatWithProject == \E tg \in TgUsers : chat_with_project(tg)

\* The chat mode: two users, each in a conversation of up to MaxTurns turns.
NextChat == ChatWithProject

SpecChat == Init /\ [][NextChat]_vars

\* C33: the conversation history kept for a conversation holds at most the
\* last 10 turns, i.e. at most 20 messages.
C33_HistoryHoldsAtMostTenTurns ==
  \A tg \in TgUsers : Len(fsm[tg].chat_history) <= MAX_HISTORY_TURNS * 2

\* the texts a user enters for an amount, and the skip button
AmountTexts == {"150 000", "0", "-5", "nan", "abc", "skip"}

EnterExpense ==
  \E tg \in FirstTgUser, w \in AmountTexts, m \in AmountTexts, pre \in {"skip"} :
     enter_expense(tg, w, m, pre)

EnterPrepayment ==
  \E tg \in FirstTgUser, pre \in AmountTexts : enter_expense(tg, "skip", "skip", pre)

\* The expense wizard with the amounts entered: expenses and prepayments of
\* one user in one project, and their deletion.
NextExpense ==
  \/ Register
  \/ CreateProject(FirstTenant, {}, {<< >>})
  \/ StartAddExpense
  \/ EnterExpense
  \/ EnterPrepayment
  \/ DeleteItem

SpecExpense == Init /\ [][NextExpense]_vars

\* C34: for every budget item, work_cost >= 0, material_cost >= 0 and
\* prepayment >= 0.
C34_AmountsAreNonNegative ==
  \A b \in DOMAIN budget_items :
     /\ float_ge_0(budget_items[b].work_cost)
     /\ float_ge_0(budget_items[b].material_cost)
     /\ float_ge_0(budget_items[b].prepayment)

RoleMiddlewareCall == \E tg \in FirstTgUser, chat \in GroupChats \cup FirstTgUser : role_middleware(tg, chat)

CacheMaintenance == cache_maintenance

\* half the lifetime of a cache entry
HalfTtl == { CONTEXT_CACHE_TTL \div 2 }

\* The context middleware: events of a registered or unregistered user in the
\* private chat and in the group chat, while projects are created in the group,
\* deleted and created again, time passes and the cache is cleaned.
NextContext ==
  \/ Register
  \/ CreateProjectUpto(FirstTenant, GroupChats, {<< >>}, MaxLinkedProjects)
  \/ DeleteProjectOf(LinkedProjectIds)
  \/ RoleMiddlewareCall
  \/ Tick(HalfTtl, MaxContextClock)
  \/ CacheMaintenance

SpecContext == Init /\ [][NextContext]_vars

\* C35: every cache read that returns a value returns it from a row whose
\* expires_at is later than the time of the read; an expired row is never
\* returned, whether or not the cleanup has run.
C35_CacheReadsAreUnexpired ==
  last.op = "RoleMiddleware" =>
     \A r \in last.reads :
        r.value # None => (r.expires_at # None /\ r.expires_at > r.at)

\* a read that found an expired row still in the table and returned nothing
C35_Witness ==
  /\ last.op = "RoleMiddleware"
  /\ \E r \in last.reads :
        /\ r.expires_at # None
        /\ r.expires_at <= r.at
        /\ r.value = None

\* C39: for every group-chat event the project attached by the middleware is
\* the project linked to that chat in the database at that moment.
C39_AttachedProjectIsLinkedProject ==
  [][ (last'.op = "RoleMiddleware" /\ last' # last /\ last'.chat \in GroupChats) =>
        last'.project = get_project_by_telegram_chat_id(last'.chat) ]_vars

\* the payment callbacks whose update the step commits
Committed ==
  { h \in in_flight \ in_flight' :
      h.stage_id \in DOMAIN stages /\ h.stage_id \in DOMAIN stages' }

\* C36: with payment-status callbacks of one stage handled concurrently, every
\* committed change is applied on the status it was validated against, and is
\* an allowed transition from the status stored immediately before it.
C36_CommitOnValidatedStatus ==
  [][ \A h \in Committed :
        /\ stages[h.stage_id].payment_status = h.current_status
        /\ validate_payment_transition(stages[h.stage_id].payment_status,
                                       stages'[h.stage_id].payment_status) ]_vars

\* the step handles a checkpoint button
CheckpointPressed == last'.op = "checkpoint" /\ last' # last

\* C37: an approve or reject action changes stage statuses only when the
\* addressed stage is a checkpoint in status completed; a repeated or stale
\* press changes nothing.
C37_CheckpointActionNeedsCompletedCheckpoint ==
  [][ (/\ last'.op = "checkpoint"
       /\ last'.stage_id \in DOMAIN stages
       /\ ~(/\ stages[last'.stage_id].is_checkpoint
            /\ stages[last'.stage_id].status = "completed"))
        => \A s \in DOMAIN stages : stages'[s].status = stages[s].status ]_vars

\* the stages that are completed before the step and not after it
LeftCompleted ==
  { s \in DOMAIN stages \cap DOMAIN stages' :
      stages[s].status = "completed" /\ stages'[s].status # "completed" }

\* C38: a completed stage changes its status only by a checkpoint rejection of
\* that stage, to delayed; no status change and no launch moves it back to
\* planned or in_progress.
C38_CompletedLeftOnlyByRejection ==
  [][ \A s \in LeftCompleted :
        /\ CheckpointPressed
        /\ last'.action = "reject"
        /\ last'.result = "done"
        /\ last'.stage_id = s
        /\ stages'[s].status = "delayed" ]_vars

\* a project created through one of the bots polled
CreateProjectThroughBot ==
  /\ adapter_status = "running"
  /\ CreateProject(polling, {}, {<< >>})

\* a run of the status-update job of the scheduler start() started
RunStatusUpdates ==
  /\ adapter_status = "running"
  /\ now + StatusUpdateHours * Hour <= MaxNotifyClock
  /\ CheckStatusUpdates

\* Notifications in a process with several bots: tenants are registered, the
\* process starts, projects are created through the bots polled, their first
\* stage gets a responsible user and is put in progress, and the status-update
\* job of the scheduler runs.
NextNotify ==
  \/ CreateTenant
  \/ Start
  \/ Register
  \/ CreateProjectThroughBot
  \/ StageStatusChange(FirstTgUser, PromptedOrders)
  \/ UpdateStageResponsible(PromptedOrders)
  \/ RunStatusUpdates

SpecNotify == Init /\ [][NextNotify]_vars

\* C40: every scheduler notification about a project is delivered through the
\* bot of the tenant of that project.
C40_NotificationThroughTenantBot ==
  \A d \in delivered :
     d.stage_id \in DOMAIN stages =>
        d.bot = projects[stages[d.stage_id].project_id].tenant_id

====
